---- MODULE Spec2Model ----
(***************************************************************************)
(* Taxonomic-identity resolution engine of taxonomy_resolver.py (and its   *)
(* copy in taxid_fetcher.py): the reference index built by                 *)
(* load_rankedlineage, the single-rank predicate                           *)
(* validate_against_higher_ranks and the hierarchical matcher              *)
(* resolve_taxid.                                                          *)
(*                                                                         *)
(* A Python str is a sequence of one-character strings, so that lower(),   *)
(* strip(), split(), startswith() and the substring test are computed      *)
(* character by character.  A printable ASCII character is written as      *)
(* itself, tab, line feed, form feed and carriage return as "\t", "\n",    *)
(* "\f" and "\r", and any other character (and the backquote) as its code  *)
(* point, U+00C6 as "<U+00C6>".  The alphabet is the code points up to     *)
(* U+024F and the white space of str.isspace().  Python's None is the      *)
(* value None below, and a missing CSV cell the value NaN; neither is a    *)
(* str.                                                                    *)
(***************************************************************************)
EXTENDS Integers, Sequences, FiniteSets, TLC

VARIABLES
    file,             \* the reference lines read so far, in file order
    tax_data,         \* the seven indices of load_rankedlineage
    line_count,       \* valid lines indexed so far
    species_indexed,  \* insertions into by_species so far
    objects,          \* the lineage dicts load_rankedlineage has built, in the order
                      \* they were built, and the dict each index entry refers to
    pc,               \* "load" while the file is read, "ready" once load_rankedlineage
                      \* has returned, "resolved" once the row's result is there
    query,            \* the six rank strings handed to resolve_taxid
    result,           \* what resolve_taxid returned for query
    tool,             \* the script whose copy of the engine resolved the row
    out,              \* the output row written for the query
    columns,          \* taxid_fetcher.process_csv: df.columns, lowercased
    rows,             \* df.to_dict('records')
    futures,          \* one Future per row, in submission order
    yielded,          \* the futures as_completed has handed to the loop, in order
    results,          \* the rows collected so far
    processed_rows,
    successful_rows,
    output            \* output_csv: whether it is written, and its rows

\* the state of one run of taxid_fetcher.process_csv
batch == <<columns, rows, futures, yielded, results, processed_rows, successful_rows, output>>

vars == <<file, tax_data, line_count, species_indexed, objects, pc, query, result, tool, out, batch>>

-----------------------------------------------------------------------------
(* Python values and str methods *)

None == <<"<None>">>

\* float('nan'), a missing CSV cell as pandas reads it
NaN == <<"<NaN>">>

\* bool(v) for a str, None or float('nan')
Truthy(v) == v # None /\ v # <<>>

\* the characters c of the alphabet with c.lower() != c, each with c.lower()
LowerTable ==
    ("A" :> <<"a">>) @@ ("B" :> <<"b">>) @@ ("C" :> <<"c">>) @@ ("D" :> <<"d">>)
    @@ ("E" :> <<"e">>) @@ ("F" :> <<"f">>) @@ ("G" :> <<"g">>) @@ ("H" :> <<"h">>)
    @@ ("I" :> <<"i">>) @@ ("J" :> <<"j">>) @@ ("K" :> <<"k">>) @@ ("L" :> <<"l">>)
    @@ ("M" :> <<"m">>) @@ ("N" :> <<"n">>) @@ ("O" :> <<"o">>) @@ ("P" :> <<"p">>)
    @@ ("Q" :> <<"q">>) @@ ("R" :> <<"r">>) @@ ("S" :> <<"s">>) @@ ("T" :> <<"t">>)
    @@ ("U" :> <<"u">>) @@ ("V" :> <<"v">>) @@ ("W" :> <<"w">>) @@ ("X" :> <<"x">>)
    @@ ("Y" :> <<"y">>) @@ ("Z" :> <<"z">>) @@ ("<U+00C0>" :> <<"<U+00E0>">>)
    @@ ("<U+00C1>" :> <<"<U+00E1>">>) @@ ("<U+00C2>" :> <<"<U+00E2>">>)
    @@ ("<U+00C3>" :> <<"<U+00E3>">>) @@ ("<U+00C4>" :> <<"<U+00E4>">>)
    @@ ("<U+00C5>" :> <<"<U+00E5>">>) @@ ("<U+00C6>" :> <<"<U+00E6>">>)
    @@ ("<U+00C7>" :> <<"<U+00E7>">>) @@ ("<U+00C8>" :> <<"<U+00E8>">>)
    @@ ("<U+00C9>" :> <<"<U+00E9>">>) @@ ("<U+00CA>" :> <<"<U+00EA>">>)
    @@ ("<U+00CB>" :> <<"<U+00EB>">>) @@ ("<U+00CC>" :> <<"<U+00EC>">>)
    @@ ("<U+00CD>" :> <<"<U+00ED>">>) @@ ("<U+00CE>" :> <<"<U+00EE>">>)
    @@ ("<U+00CF>" :> <<"<U+00EF>">>) @@ ("<U+00D0>" :> <<"<U+00F0>">>)
    @@ ("<U+00D1>" :> <<"<U+00F1>">>) @@ ("<U+00D2>" :> <<"<U+00F2>">>)
    @@ ("<U+00D3>" :> <<"<U+00F3>">>) @@ ("<U+00D4>" :> <<"<U+00F4>">>)
    @@ ("<U+00D5>" :> <<"<U+00F5>">>) @@ ("<U+00D6>" :> <<"<U+00F6>">>)
    @@ ("<U+00D8>" :> <<"<U+00F8>">>) @@ ("<U+00D9>" :> <<"<U+00F9>">>)
    @@ ("<U+00DA>" :> <<"<U+00FA>">>) @@ ("<U+00DB>" :> <<"<U+00FB>">>)
    @@ ("<U+00DC>" :> <<"<U+00FC>">>) @@ ("<U+00DD>" :> <<"<U+00FD>">>)
    @@ ("<U+00DE>" :> <<"<U+00FE>">>) @@ ("<U+0100>" :> <<"<U+0101>">>)
    @@ ("<U+0102>" :> <<"<U+0103>">>) @@ ("<U+0104>" :> <<"<U+0105>">>)
    @@ ("<U+0106>" :> <<"<U+0107>">>) @@ ("<U+0108>" :> <<"<U+0109>">>)
    @@ ("<U+010A>" :> <<"<U+010B>">>) @@ ("<U+010C>" :> <<"<U+010D>">>)
    @@ ("<U+010E>" :> <<"<U+010F>">>) @@ ("<U+0110>" :> <<"<U+0111>">>)
    @@ ("<U+0112>" :> <<"<U+0113>">>) @@ ("<U+0114>" :> <<"<U+0115>">>)
    @@ ("<U+0116>" :> <<"<U+0117>">>) @@ ("<U+0118>" :> <<"<U+0119>">>)
    @@ ("<U+011A>" :> <<"<U+011B>">>) @@ ("<U+011C>" :> <<"<U+011D>">>)
    @@ ("<U+011E>" :> <<"<U+011F>">>) @@ ("<U+0120>" :> <<"<U+0121>">>)
    @@ ("<U+0122>" :> <<"<U+0123>">>) @@ ("<U+0124>" :> <<"<U+0125>">>)
    @@ ("<U+0126>" :> <<"<U+0127>">>) @@ ("<U+0128>" :> <<"<U+0129>">>)
    @@ ("<U+012A>" :> <<"<U+012B>">>) @@ ("<U+012C>" :> <<"<U+012D>">>)
    @@ ("<U+012E>" :> <<"<U+012F>">>) @@ ("<U+0130>" :> <<"i", "<U+0307>">>)
    @@ ("<U+0132>" :> <<"<U+0133>">>) @@ ("<U+0134>" :> <<"<U+0135>">>)
    @@ ("<U+0136>" :> <<"<U+0137>">>) @@ ("<U+0139>" :> <<"<U+013A>">>)
    @@ ("<U+013B>" :> <<"<U+013C>">>) @@ ("<U+013D>" :> <<"<U+013E>">>)
    @@ ("<U+013F>" :> <<"<U+0140>">>) @@ ("<U+0141>" :> <<"<U+0142>">>)
    @@ ("<U+0143>" :> <<"<U+0144>">>) @@ ("<U+0145>" :> <<"<U+0146>">>)
    @@ ("<U+0147>" :> <<"<U+0148>">>) @@ ("<U+014A>" :> <<"<U+014B>">>)
    @@ ("<U+014C>" :> <<"<U+014D>">>) @@ ("<U+014E>" :> <<"<U+014F>">>)
    @@ ("<U+0150>" :> <<"<U+0151>">>) @@ ("<U+0152>" :> <<"<U+0153>">>)
    @@ ("<U+0154>" :> <<"<U+0155>">>) @@ ("<U+0156>" :> <<"<U+0157>">>)
    @@ ("<U+0158>" :> <<"<U+0159>">>) @@ ("<U+015A>" :> <<"<U+015B>">>)
    @@ ("<U+015C>" :> <<"<U+015D>">>) @@ ("<U+015E>" :> <<"<U+015F>">>)
    @@ ("<U+0160>" :> <<"<U+0161>">>) @@ ("<U+0162>" :> <<"<U+0163>">>)
    @@ ("<U+0164>" :> <<"<U+0165>">>) @@ ("<U+0166>" :> <<"<U+0167>">>)
    @@ ("<U+0168>" :> <<"<U+0169>">>) @@ ("<U+016A>" :> <<"<U+016B>">>)
    @@ ("<U+016C>" :> <<"<U+016D>">>) @@ ("<U+016E>" :> <<"<U+016F>">>)
    @@ ("<U+0170>" :> <<"<U+0171>">>) @@ ("<U+0172>" :> <<"<U+0173>">>)
    @@ ("<U+0174>" :> <<"<U+0175>">>) @@ ("<U+0176>" :> <<"<U+0177>">>)
    @@ ("<U+0178>" :> <<"<U+00FF>">>) @@ ("<U+0179>" :> <<"<U+017A>">>)
    @@ ("<U+017B>" :> <<"<U+017C>">>) @@ ("<U+017D>" :> <<"<U+017E>">>)
    @@ ("<U+0181>" :> <<"<U+0253>">>) @@ ("<U+0182>" :> <<"<U+0183>">>)
    @@ ("<U+0184>" :> <<"<U+0185>">>) @@ ("<U+0186>" :> <<"<U+0254>">>)
    @@ ("<U+0187>" :> <<"<U+0188>">>) @@ ("<U+0189>" :> <<"<U+0256>">>)
    @@ ("<U+018A>" :> <<"<U+0257>">>) @@ ("<U+018B>" :> <<"<U+018C>">>)
    @@ ("<U+018E>" :> <<"<U+01DD>">>) @@ ("<U+018F>" :> <<"<U+0259>">>)
    @@ ("<U+0190>" :> <<"<U+025B>">>) @@ ("<U+0191>" :> <<"<U+0192>">>)
    @@ ("<U+0193>" :> <<"<U+0260>">>) @@ ("<U+0194>" :> <<"<U+0263>">>)
    @@ ("<U+0196>" :> <<"<U+0269>">>) @@ ("<U+0197>" :> <<"<U+0268>">>)
    @@ ("<U+0198>" :> <<"<U+0199>">>) @@ ("<U+019C>" :> <<"<U+026F>">>)
    @@ ("<U+019D>" :> <<"<U+0272>">>) @@ ("<U+019F>" :> <<"<U+0275>">>)
    @@ ("<U+01A0>" :> <<"<U+01A1>">>) @@ ("<U+01A2>" :> <<"<U+01A3>">>)
    @@ ("<U+01A4>" :> <<"<U+01A5>">>) @@ ("<U+01A6>" :> <<"<U+0280>">>)
    @@ ("<U+01A7>" :> <<"<U+01A8>">>) @@ ("<U+01A9>" :> <<"<U+0283>">>)
    @@ ("<U+01AC>" :> <<"<U+01AD>">>) @@ ("<U+01AE>" :> <<"<U+0288>">>)
    @@ ("<U+01AF>" :> <<"<U+01B0>">>) @@ ("<U+01B1>" :> <<"<U+028A>">>)
    @@ ("<U+01B2>" :> <<"<U+028B>">>) @@ ("<U+01B3>" :> <<"<U+01B4>">>)
    @@ ("<U+01B5>" :> <<"<U+01B6>">>) @@ ("<U+01B7>" :> <<"<U+0292>">>)
    @@ ("<U+01B8>" :> <<"<U+01B9>">>) @@ ("<U+01BC>" :> <<"<U+01BD>">>)
    @@ ("<U+01C4>" :> <<"<U+01C6>">>) @@ ("<U+01C5>" :> <<"<U+01C6>">>)
    @@ ("<U+01C7>" :> <<"<U+01C9>">>) @@ ("<U+01C8>" :> <<"<U+01C9>">>)
    @@ ("<U+01CA>" :> <<"<U+01CC>">>) @@ ("<U+01CB>" :> <<"<U+01CC>">>)
    @@ ("<U+01CD>" :> <<"<U+01CE>">>) @@ ("<U+01CF>" :> <<"<U+01D0>">>)
    @@ ("<U+01D1>" :> <<"<U+01D2>">>) @@ ("<U+01D3>" :> <<"<U+01D4>">>)
    @@ ("<U+01D5>" :> <<"<U+01D6>">>) @@ ("<U+01D7>" :> <<"<U+01D8>">>)
    @@ ("<U+01D9>" :> <<"<U+01DA>">>) @@ ("<U+01DB>" :> <<"<U+01DC>">>)
    @@ ("<U+01DE>" :> <<"<U+01DF>">>) @@ ("<U+01E0>" :> <<"<U+01E1>">>)
    @@ ("<U+01E2>" :> <<"<U+01E3>">>) @@ ("<U+01E4>" :> <<"<U+01E5>">>)
    @@ ("<U+01E6>" :> <<"<U+01E7>">>) @@ ("<U+01E8>" :> <<"<U+01E9>">>)
    @@ ("<U+01EA>" :> <<"<U+01EB>">>) @@ ("<U+01EC>" :> <<"<U+01ED>">>)
    @@ ("<U+01EE>" :> <<"<U+01EF>">>) @@ ("<U+01F1>" :> <<"<U+01F3>">>)
    @@ ("<U+01F2>" :> <<"<U+01F3>">>) @@ ("<U+01F4>" :> <<"<U+01F5>">>)
    @@ ("<U+01F6>" :> <<"<U+0195>">>) @@ ("<U+01F7>" :> <<"<U+01BF>">>)
    @@ ("<U+01F8>" :> <<"<U+01F9>">>) @@ ("<U+01FA>" :> <<"<U+01FB>">>)
    @@ ("<U+01FC>" :> <<"<U+01FD>">>) @@ ("<U+01FE>" :> <<"<U+01FF>">>)
    @@ ("<U+0200>" :> <<"<U+0201>">>) @@ ("<U+0202>" :> <<"<U+0203>">>)
    @@ ("<U+0204>" :> <<"<U+0205>">>) @@ ("<U+0206>" :> <<"<U+0207>">>)
    @@ ("<U+0208>" :> <<"<U+0209>">>) @@ ("<U+020A>" :> <<"<U+020B>">>)
    @@ ("<U+020C>" :> <<"<U+020D>">>) @@ ("<U+020E>" :> <<"<U+020F>">>)
    @@ ("<U+0210>" :> <<"<U+0211>">>) @@ ("<U+0212>" :> <<"<U+0213>">>)
    @@ ("<U+0214>" :> <<"<U+0215>">>) @@ ("<U+0216>" :> <<"<U+0217>">>)
    @@ ("<U+0218>" :> <<"<U+0219>">>) @@ ("<U+021A>" :> <<"<U+021B>">>)
    @@ ("<U+021C>" :> <<"<U+021D>">>) @@ ("<U+021E>" :> <<"<U+021F>">>)
    @@ ("<U+0220>" :> <<"<U+019E>">>) @@ ("<U+0222>" :> <<"<U+0223>">>)
    @@ ("<U+0224>" :> <<"<U+0225>">>) @@ ("<U+0226>" :> <<"<U+0227>">>)
    @@ ("<U+0228>" :> <<"<U+0229>">>) @@ ("<U+022A>" :> <<"<U+022B>">>)
    @@ ("<U+022C>" :> <<"<U+022D>">>) @@ ("<U+022E>" :> <<"<U+022F>">>)
    @@ ("<U+0230>" :> <<"<U+0231>">>) @@ ("<U+0232>" :> <<"<U+0233>">>)
    @@ ("<U+023A>" :> <<"<U+2C65>">>) @@ ("<U+023B>" :> <<"<U+023C>">>)
    @@ ("<U+023D>" :> <<"<U+019A>">>) @@ ("<U+023E>" :> <<"<U+2C66>">>)
    @@ ("<U+0241>" :> <<"<U+0242>">>) @@ ("<U+0243>" :> <<"<U+0180>">>)
    @@ ("<U+0244>" :> <<"<U+0289>">>) @@ ("<U+0245>" :> <<"<U+028C>">>)
    @@ ("<U+0246>" :> <<"<U+0247>">>) @@ ("<U+0248>" :> <<"<U+0249>">>)
    @@ ("<U+024A>" :> <<"<U+024B>">>) @@ ("<U+024C>" :> <<"<U+024D>">>)
    @@ ("<U+024E>" :> <<"<U+024F>">>)

\* c.lower() for one character: a str, of two characters for U+0130
lower_char(c) == IF c \in DOMAIN LowerTable THEN LowerTable[c] ELSE <<c>>

\* str.lower()
RECURSIVE lower(_)
lower(s) == IF s = <<>> THEN <<>> ELSE lower_char(Head(s)) \o lower(Tail(s))

\* the characters str.strip() removes: those with c.isspace()
Whitespace ==
    {"\t", "\n", "<U+000B>", "\f", "\r", "<U+001C>", "<U+001D>", "<U+001E>", "<U+001F>", " ",
     "<U+0085>", "<U+00A0>", "<U+1680>", "<U+2000>", "<U+2001>", "<U+2002>", "<U+2003>",
     "<U+2004>", "<U+2005>", "<U+2006>", "<U+2007>", "<U+2008>", "<U+2009>", "<U+200A>",
     "<U+2028>", "<U+2029>", "<U+202F>", "<U+205F>", "<U+3000>"}

\* str.strip()
strip(s) ==
    LET keep == {i \in 1..Len(s) : s[i] \notin Whitespace}
    IN  IF keep = {} THEN <<>>
        ELSE LET lo == CHOOSE i \in keep : \A j \in keep : i <= j
                 hi == CHOOSE i \in keep : \A j \in keep : j <= i
             IN  SubSeq(s, lo, hi)

\* s.startswith(prefix)
startswith(s, prefix) ==
    /\ Len(prefix) <= Len(s)
    /\ SubSeq(s, 1, Len(prefix)) = prefix

\* s[n:]
from(s, n) == SubSeq(s, n + 1, Len(s))

\* x in s, for strs
contains(s, x) ==
    \E i \in 1..(Len(s) - Len(x) + 1) : SubSeq(s, i, i + Len(x) - 1) = x

\* s.split('|')
RECURSIVE split(_)
split(s) ==
    LET bars == {i \in 1..Len(s) : s[i] = "|"}
    IN  IF bars = {} THEN <<s>>
        ELSE LET b == CHOOSE i \in bars : \A j \in bars : i <= j
             IN  <<SubSeq(s, 1, b - 1)>> \o split(from(s, b))

\* sep.join(items)
RECURSIVE join(_, _)
join(sep, items) ==
    IF items = <<>> THEN <<>>
    ELSE IF Len(items) = 1 THEN items[1]
    ELSE items[1] \o sep \o join(sep, Tail(items))

\* f"{v}" and str(v): None prints as the four characters None, float('nan') as nan
format(v) ==
    IF v = None THEN <<"N", "o", "n", "e">>
    ELSE IF v = NaN THEN <<"n", "a", "n">>
    ELSE v

-----------------------------------------------------------------------------
(* load_rankedlineage *)

MinFields == 10

\* [p.strip() for p in line.strip().split('|')]
parts_of(line) ==
    LET raw == split(strip(line)) IN [i \in 1..Len(raw) |-> strip(raw[i])]

SpeciesMarkers ==
    << <<"s", "p", ".">>, <<"c", "f", ".">>, <<"a", "f", "f", ".">>, <<"x", " ">>,
       <<"s", "u", "b", "s", "p", ".">>, <<"v", "a", "r", ".">> >>

\* derive_species without the test for ambiguous markers
derive_species_unfiltered(species_field, genus, scientific_name) ==
    IF Truthy(species_field)
    THEN IF Truthy(genus) /\ startswith(lower(species_field), lower(genus))
         THEN strip(from(species_field, Len(genus)))
         ELSE species_field
    ELSE IF Truthy(genus) /\ startswith(scientific_name, genus)
         THEN strip(from(scientific_name, Len(genus)))
         ELSE None

\* derive_species that takes the species field as it is written, genus included
derive_species_keep_prefix(species_field, genus, scientific_name) ==
    LET extracted ==
            IF Truthy(species_field)
            THEN species_field
            ELSE IF Truthy(genus) /\ startswith(scientific_name, genus)
                 THEN strip(from(scientific_name, Len(genus)))
                 ELSE None
    IN  IF Truthy(extracted)
           /\ \E m \in 1..Len(SpeciesMarkers) : contains(lower(extracted), SpeciesMarkers[m])
        THEN None
        ELSE extracted

\* the species of a record, from the species field, the genus and the scientific name
derive_species(species_field, genus, scientific_name) ==
    LET extracted ==
            IF Truthy(species_field)
            THEN IF Truthy(genus) /\ startswith(lower(species_field), lower(genus))
                 THEN strip(from(species_field, Len(genus)))
                 ELSE species_field
            ELSE IF Truthy(genus) /\ startswith(scientific_name, genus)
                 THEN strip(from(scientific_name, Len(genus)))
                 ELSE None
    IN  IF Truthy(extracted)
           /\ \E m \in 1..Len(SpeciesMarkers) : contains(lower(extracted), SpeciesMarkers[m])
        THEN None
        ELSE extracted

\* the lineage dict of one valid line
lineage_of(parts) ==
    [taxid           |-> parts[1],
     scientific_name |-> parts[2],
     species         |-> derive_species(parts[3], parts[4], parts[2]),
     genus           |-> parts[4],
     family          |-> parts[5],
     order           |-> parts[6],
     class           |-> parts[7],
     phylum          |-> parts[8],
     kingdom         |-> parts[9],
     superkingdom    |-> parts[10]]

\* d.setdefault(key, value): the first value stored under a key stays
dict_set_first_wins(d, key, value) ==
    [k \in (DOMAIN d) \cup {key} |-> IF k \in DOMAIN d THEN d[k] ELSE value]

\* d[key] = value
dict_set(d, key, value) ==
    [k \in (DOMAIN d) \cup {key} |-> IF k = key THEN value ELSE d[k]]

\* d[key].insert(0, value): the newest value comes first
dict_append_front(d, key, value) ==
    [k \in (DOMAIN d) \cup {key} |->
        IF k = key
        THEN <<value>> \o (IF key \in DOMAIN d THEN d[key] ELSE <<>>)
        ELSE d[k]]

\* if key not in d: d[key] = []  ;  d[key].append(value)
dict_append(d, key, value) ==
    [k \in (DOMAIN d) \cup {key} |->
        IF k = key
        THEN (IF key \in DOMAIN d THEN d[key] ELSE <<>>) \o <<value>>
        ELSE d[k]]

EmptyDict == [k \in {} |-> <<>>]

empty_tax_data ==
    [by_scientific_name |-> EmptyDict,
     by_species         |-> EmptyDict,
     by_genus           |-> EmptyDict,
     by_family          |-> EmptyDict,
     by_order           |-> EmptyDict,
     by_class           |-> EmptyDict,
     by_phylum          |-> EmptyDict]

species_key_of(genus, species) == lower(genus) \o <<" ">> \o lower(species)

\* the by_<rank> index after a lineage is offered to it
index_rank(d, lineage, rank) ==
    IF Truthy(lineage[rank]) THEN dict_append(d, lower(lineage[rank]), lineage) ELSE d

\* load_line without the test of the number of fields: a short line is filled up
\* with empty fields and indexed
load_line_pad_short(td, line) ==
    LET read == parts_of(line)
        parts == IF Len(read) < MinFields
                 THEN read \o [n \in 1..(MinFields - Len(read)) |-> <<>>]
                 ELSE read
        lineage == lineage_of(parts)
    IN  [by_scientific_name |->
             dict_set(td.by_scientific_name, lower(lineage.scientific_name), lineage),
         by_species |->
             IF Truthy(lineage.species) /\ Truthy(lineage.genus)
             THEN dict_set(td.by_species,
                           species_key_of(lineage.genus, lineage.species), lineage)
             ELSE td.by_species,
         by_genus  |-> index_rank(td.by_genus, lineage, "genus"),
         by_family |-> index_rank(td.by_family, lineage, "family"),
         by_order  |-> index_rank(td.by_order, lineage, "order"),
         by_class  |-> index_rank(td.by_class, lineage, "class"),
         by_phylum |-> index_rank(td.by_phylum, lineage, "phylum")]

\* one iteration of the loop over the file: the indices after this line
load_line(td, line) ==
    LET parts == parts_of(line) IN
    IF Len(parts) < MinFields THEN td
    ELSE LET lineage == lineage_of(parts) IN
         [by_scientific_name |->
              dict_set(td.by_scientific_name, lower(lineage.scientific_name), lineage),
          by_species |->
              IF Truthy(lineage.species) /\ Truthy(lineage.genus)
              THEN dict_set(td.by_species,
                            species_key_of(lineage.genus, lineage.species), lineage)
              ELSE td.by_species,
          by_genus  |-> index_rank(td.by_genus, lineage, "genus"),
          by_family |-> index_rank(td.by_family, lineage, "family"),
          by_order  |-> index_rank(td.by_order, lineage, "order"),
          by_class  |-> index_rank(td.by_class, lineage, "class"),
          by_phylum |-> index_rank(td.by_phylum, lineage, "phylum")]

\* if len(parts) < 10: continue
IsValidLine(line) == Len(parts_of(line)) >= MinFields

\* the indices load_rankedlineage builds from the first n of the lines
RECURSIVE Built(_, _)
Built(lines, n) ==
    IF n = 0 THEN empty_tax_data ELSE load_line(Built(lines, n - 1), lines[n])

-----------------------------------------------------------------------------
(* The dict objects behind the indices *)

\* Every valid line builds one dict, "lineage = {...}", and the indices store
\* references to it.  A dict object is known by its position in the order the
\* dicts were built in; .heap holds the dicts, .refs the position each index entry
\* refers to.
no_objects == [heap |-> <<>>, refs |-> empty_tax_data]

index_name ==
    [genus |-> "by_genus", family |-> "by_family", order |-> "by_order",
     class |-> "by_class", phylum |-> "by_phylum"]

\* the rank index is handed a copy of the dict, dict(lineage), a new object
append_copy(obj, rank, o) ==
    LET value == obj.heap[o][rank] IN
    IF Truthy(value)
    THEN [heap |-> Append(obj.heap, obj.heap[o]),
          refs |-> [obj.refs EXCEPT ![index_name[rank]] =
                       dict_append(@, lower(value), Len(obj.heap) + 1)]]
    ELSE obj

\* tax_data['by_<rank>'][value.lower()].append(lineage): the list takes a
\* reference to the dict o, no new dict is built
append_lineage(obj, rank, o) ==
    LET value == obj.heap[o][rank] IN
    IF Truthy(value)
    THEN [obj EXCEPT !.refs[index_name[rank]] = dict_append(@, lower(value), o)]
    ELSE obj

\* one iteration of the loop over the file: the dict built and the references
\* stored, in the order of the statements
load_line_objects(obj, line) ==
    LET parts == parts_of(line) IN
    IF Len(parts) < MinFields THEN obj
    ELSE LET lineage == lineage_of(parts)
             o == Len(obj.heap) + 1
             built == [obj EXCEPT !.heap = Append(@, lineage)]
             named == [built EXCEPT !.refs.by_scientific_name =
                          dict_set(@, lower(lineage.scientific_name), o)]
             keyed == IF Truthy(lineage.species) /\ Truthy(lineage.genus)
                      THEN [named EXCEPT !.refs.by_species =
                               dict_set(@, species_key_of(lineage.genus, lineage.species), o)]
                      ELSE named
         IN  append_lineage(
                 append_lineage(
                     append_lineage(
                         append_lineage(
                             append_lineage(keyed, "genus", o),
                             "family", o),
                         "order", o),
                     "class", o),
                 "phylum", o)

\* the dicts and references load_rankedlineage has after the first n of the lines
RECURSIVE BuiltObjects(_, _)
BuiltObjects(lines, n) ==
    IF n = 0 THEN no_objects ELSE load_line_objects(BuiltObjects(lines, n - 1), lines[n])

\* tax_data as the references give it: under every key the dict referred to
dereferenced(obj) ==
    [name \in DOMAIN obj.refs |->
        IF name \in {"by_scientific_name", "by_species"}
        THEN [k \in DOMAIN obj.refs[name] |-> obj.heap[obj.refs[name][k]]]
        ELSE [k \in DOMAIN obj.refs[name] |->
                 [c \in 1..Len(obj.refs[name][k]) |-> obj.heap[obj.refs[name][k][c]]]]]

-----------------------------------------------------------------------------
(* validate_against_higher_ranks, resolve_taxid, create_return_tuple *)

validation_ranks ==
    [family |-> <<"family">>,
     order  |-> <<"order">>,
     class  |-> <<"class">>,
     phylum |-> <<"phylum">>]

\* the loop over ranks_to_check, from position i on
RECURSIVE check_ranks(_, _, _, _)
check_ranks(lineage, target_ranks, ranks_to_check, i) ==
    IF i > Len(ranks_to_check) THEN FALSE
    ELSE LET rank == ranks_to_check[i] IN
         IF Truthy(target_ranks[rank]) /\ Truthy(lineage[rank])
         THEN lower(lineage[rank]) = lower(target_ranks[rank])
         ELSE check_ranks(lineage, target_ranks, ranks_to_check, i + 1)

\* validate_against_higher_ranks with a hierarchy that cascades upwards: the level
\* and every rank above it are looked at, the first rank both sides give decides
validate_cascading(lineage, target_ranks, validation_level) ==
    LET cascade ==
            [family |-> <<"family", "order", "class", "phylum">>,
             order  |-> <<"order", "class", "phylum">>,
             class  |-> <<"class", "phylum">>,
             phylum |-> <<"phylum">>]
        ranks_to_check ==
            IF validation_level \in DOMAIN cascade THEN cascade[validation_level] ELSE <<>>
    IN  check_ranks(lineage, target_ranks, ranks_to_check, 1)

validate_against_higher_ranks(lineage, target_ranks, validation_level) ==
    LET ranks_to_check ==
            IF validation_level \in DOMAIN validation_ranks
            THEN validation_ranks[validation_level]
            ELSE <<>>
    IN  check_ranks(lineage, target_ranks, ranks_to_check, 1)

validation_levels == <<"family", "order", "class", "phylum">>

LineageRanks ==
    << <<"s", "u", "p", "e", "r", "k", "i", "n", "g", "d", "o", "m">>,
       <<"k", "i", "n", "g", "d", "o", "m">>,
       <<"p", "h", "y", "l", "u", "m">>,
       <<"c", "l", "a", "s", "s">>,
       <<"o", "r", "d", "e", "r">>,
       <<"f", "a", "m", "i", "l", "y">>,
       <<"g", "e", "n", "u", "s">>,
       <<"s", "p", "e", "c", "i", "e", "s">> >>

LineageKeys ==
    <<"superkingdom", "kingdom", "phylum", "class", "order", "family", "genus", "species">>

\* create_return_tuple that leaves the lineage string out
create_return_tuple_no_lineage(lineage, matched_rank, is_mismatch) ==
    [taxid        |-> lineage.taxid,
     matched_rank |-> matched_rank,
     lineage      |-> None,
     is_mismatch  |-> is_mismatch]

\* create_return_tuple that flags every match above the species rank as a mismatch
create_return_tuple_flagging(lineage, matched_rank, is_mismatch) ==
    LET lineage_string ==
            join(<<";">>,
                 [i \in 1..Len(LineageKeys) |->
                     LineageRanks[i] \o <<":">> \o format(lineage[LineageKeys[i]])])
    IN  [taxid        |-> lineage.taxid,
         matched_rank |-> matched_rank,
         lineage      |-> lineage_string,
         is_mismatch  |-> matched_rank # "species"]

create_return_tuple(lineage, matched_rank, is_mismatch) ==
    LET lineage_string ==
            join(<<";">>,
                 [i \in 1..Len(LineageKeys) |->
                     LineageRanks[i] \o <<":">> \o format(lineage[LineageKeys[i]])])
    IN  [taxid        |-> lineage.taxid,
         matched_rank |-> matched_rank,
         lineage      |-> lineage_string,
         is_mismatch  |-> is_mismatch]

\* return None, 'unmatched', None, False
Unmatched ==
    [taxid |-> None, matched_rank |-> "unmatched", lineage |-> None, is_mismatch |-> FALSE]

\* a step of resolve_taxid that returned nothing: control falls to the next step
NoReturn ==
    [taxid |-> None, matched_rank |-> "<none>", lineage |-> None, is_mismatch |-> FALSE]

\* for level in levels: if validate_against_higher_ranks(lineage, target_ranks, level)
validates_at_some(lineage, target_ranks, levels) ==
    \E l \in 1..Len(levels) :
        validate_against_higher_ranks(lineage, target_ranks, levels[l])

\* for lineage in matches: for level in levels: ... return: position of the lineage
\* the loops return for, 0 when they run to their end
first_validated(matches, target_ranks, levels) ==
    LET ok == {i \in 1..Len(matches) : validates_at_some(matches[i], target_ranks, levels)}
    IN  IF ok = {} THEN 0 ELSE CHOOSE i \in ok : \A j \in ok : i <= j

\* the species key resolve_taxid looks up
query_species_key(genus, species) ==
    LET species_name ==
            IF startswith(lower(species), lower(genus))
            THEN strip(from(species, Len(genus)))
            ELSE species
    IN  lower(genus) \o <<" ">> \o lower(species_name)

\* species_attempt with the candidate validated at family alone
species_attempt_family_only(target_ranks, td) ==
    IF Truthy(target_ranks.species) /\ Truthy(target_ranks.genus)
    THEN LET species_key == query_species_key(target_ranks.genus, target_ranks.species) IN
         IF species_key \in DOMAIN td.by_species
            /\ validates_at_some(td.by_species[species_key], target_ranks, <<"family">>)
         THEN create_return_tuple(td.by_species[species_key], "species", FALSE)
         ELSE NoReturn
    ELSE NoReturn

\* "Try species-level match first"
species_attempt(target_ranks, td) ==
    IF Truthy(target_ranks.species) /\ Truthy(target_ranks.genus)
    THEN LET species_key == query_species_key(target_ranks.genus, target_ranks.species) IN
         IF species_key \in DOMAIN td.by_species
            /\ validates_at_some(td.by_species[species_key], target_ranks, validation_levels)
         THEN create_return_tuple(td.by_species[species_key], "species", FALSE)
         ELSE NoReturn
    ELSE NoReturn

\* genus_attempt with the loops nested the other way round: for each level, for
\* each candidate
genus_attempt_level_first(target_ranks, td) ==
    IF Truthy(target_ranks.genus) /\ lower(target_ranks.genus) \in DOMAIN td.by_genus
    THEN LET matches == td.by_genus[lower(target_ranks.genus)]
             levels == {l \in 1..Len(validation_levels) :
                           first_validated(matches, target_ranks, <<validation_levels[l]>>) # 0}
         IN  IF levels = {} THEN NoReturn
             ELSE LET l == CHOOSE x \in levels : \A y \in levels : x <= y
                      hit == first_validated(matches, target_ranks, <<validation_levels[l]>>)
                  IN  create_return_tuple(matches[hit], "genus", FALSE)
    ELSE NoReturn

\* "Try genus-level match"
genus_attempt(target_ranks, td) ==
    IF Truthy(target_ranks.genus) /\ lower(target_ranks.genus) \in DOMAIN td.by_genus
    THEN LET matches == td.by_genus[lower(target_ranks.genus)]
             hit == first_validated(matches, target_ranks, validation_levels)
         IN  IF hit # 0 THEN create_return_tuple(matches[hit], "genus", FALSE) ELSE NoReturn
    ELSE NoReturn

by_rank(td, rank) ==
    CASE rank = "family" -> td.by_family
      [] rank = "order"  -> td.by_order
      [] rank = "class"  -> td.by_class
      [] rank = "phylum" -> td.by_phylum

\* rank_attempt with a cascading validation: a candidate is rejected when it
\* disagrees with the query at any rank where both give a value
rank_attempt_cascading(target_ranks, td, rank) ==
    LET rank_value == target_ranks[rank] IN
    IF Truthy(rank_value) /\ lower(rank_value) \in DOMAIN by_rank(td, rank)
    THEN LET matches == by_rank(td, rank)[lower(rank_value)]
             ok == {i \in 1..Len(matches) :
                       \A l \in 1..Len(validation_levels) :
                           LET r == validation_levels[l] IN
                           (Truthy(target_ranks[r]) /\ Truthy(matches[i][r]))
                               => lower(matches[i][r]) = lower(target_ranks[r])}
         IN  IF ok # {}
             THEN create_return_tuple(matches[CHOOSE i \in ok : \A j \in ok : i <= j],
                                      rank, FALSE)
             ELSE NoReturn
    ELSE NoReturn

\* the body of "for rank in validation_levels" for one rank
rank_attempt(target_ranks, td, rank) ==
    LET rank_value == target_ranks[rank] IN
    IF Truthy(rank_value) /\ lower(rank_value) \in DOMAIN by_rank(td, rank)
    THEN LET matches == by_rank(td, rank)[lower(rank_value)]
             hit == first_validated(matches, target_ranks, <<rank>>)
         IN  IF hit # 0 THEN create_return_tuple(matches[hit], rank, FALSE) ELSE NoReturn
    ELSE NoReturn

\* "Try matches at each higher rank", from position i of validation_levels on
RECURSIVE higher_rank_attempts(_, _, _)
higher_rank_attempts(target_ranks, td, i) ==
    IF i > Len(validation_levels) THEN NoReturn
    ELSE LET r == rank_attempt(target_ranks, td, validation_levels[i]) IN
         IF r # NoReturn THEN r ELSE higher_rank_attempts(target_ranks, td, i + 1)

\* resolve_taxid with the genus step ahead of the species step
resolve_taxid_genus_first(phylum, class_name, order, family, genus, species, td) ==
    LET target_ranks ==
            [phylum |-> phylum, class |-> class_name, order |-> order,
             family |-> family, genus |-> genus, species |-> species]
        s == species_attempt(target_ranks, td)
        g == genus_attempt(target_ranks, td)
        h == higher_rank_attempts(target_ranks, td, 1)
    IN  IF g # NoReturn THEN g
        ELSE IF s # NoReturn THEN s
        ELSE IF h # NoReturn THEN h
        ELSE Unmatched

resolve_taxid(phylum, class_name, order, family, genus, species, td) ==
    LET target_ranks ==
            [phylum |-> phylum, class |-> class_name, order |-> order,
             family |-> family, genus |-> genus, species |-> species]
        s == species_attempt(target_ranks, td)
        g == genus_attempt(target_ranks, td)
        h == higher_rank_attempts(target_ranks, td, 1)
    IN  IF s # NoReturn THEN s
        ELSE IF g # NoReturn THEN g
        ELSE IF h # NoReturn THEN h
        ELSE Unmatched

-----------------------------------------------------------------------------
(* The inputs: reference lines and CSV rows *)

MaxLines == 2

w_Homo == <<"H", "o">>
w_sapiens == <<"s", "a">>
w_HomoSapiens == <<"H", "o", " ", "s", "a">>
w_HOMO_SAPIENS == <<"H", "O", " ", "S", "A">>
w_HomoSp == <<"H", "o", " ", "s", "p", ".">>
w_HomoNe == <<"H", "o", " ", "n", "e">>
w_Gorilla == <<"G", "o">>
w_gorilla == <<"g", "o">>
w_GorillaGorilla == <<"G", "o", " ", "g", "o">>
w_Panax == <<"P", "a", "x">>
w_PanaxGinseng == <<"P", "a", "x", " ", "g", "i">>
w_Araliaceae == <<"A", "r", "a">>
w_Hominidae == <<"H", "o", "m">>
w_HOMINIDAE == <<"H", "O", "M">>
w_Hoxidae == <<"H", "<U+00F6>", "x">>
w_HOXIDAE == <<"H", "<U+00D6>", "X">>
w_Primates == <<"P", "r", "i">>
w_Mammalia == <<"M", "a", "m">>
w_Aves == <<"A", "v", "e">>
w_Chordata == <<"C", "h", "o">>
w_Animalia == <<"A", "n">>
w_Eukaryota == <<"E", "u">>
w_not_collected == <<"n", "o", "t", " ", "c", "o", "l", "l", "e", "c", "t", "e", "d">>
Empty == <<>>

\* a reference line written with bare '|' separators
PlainLine(fields) == join(<<"|">>, fields) \o <<"\n">>

\* a reference line as rankedlineage.dmp writes it: "\t|\t" between fields, "\t|" at the end
DmpLine(fields) == join(<<"\t", "|", "\t">>, fields) \o <<"\t", "|", "\n">>

L_sapiens ==
    PlainLine(<< <<"1">>, w_HomoSapiens, w_sapiens, w_Homo, w_Hominidae, w_Primates,
                 w_Mammalia, w_Chordata, w_Animalia, w_Eukaryota >>)
L_binomial ==
    DmpLine(<< <<"2">>, w_HOMO_SAPIENS, w_HomoSapiens, w_Homo, w_Hoxidae, w_Primates,
               w_Mammalia, w_Chordata, w_Animalia, w_Eukaryota >>)
L_sp ==
    PlainLine(<< <<"3">>, w_HomoSp, w_HomoSp, w_Homo, w_Hominidae, w_Primates,
                 w_Mammalia, w_Chordata, w_Animalia, w_Eukaryota >>)
L_tautonym ==
    PlainLine(<< <<"4">>, w_GorillaGorilla, w_gorilla, w_Gorilla, w_Hominidae, w_Primates,
                 w_Mammalia, w_Chordata, w_Animalia, w_Eukaryota >>)
L_short ==
    PlainLine(<< <<"5">>, w_HomoSapiens, w_sapiens >>)
L_sentinel ==
    PlainLine(<< <<"6">>, w_not_collected, Empty, Empty, w_not_collected, Empty,
                 Empty, Empty, Empty, Empty >>)
L_family ==
    PlainLine(<< <<"7">>, w_Hominidae, Empty, Empty, w_Hominidae, w_Primates,
                 w_Aves, w_Chordata, w_Animalia, w_Eukaryota >>)
L_dmp_species ==
    DmpLine(<< <<"8">>, w_HomoNe, Empty, w_Homo, w_Hominidae, w_Primates,
               w_Mammalia, w_Chordata, w_Animalia, w_Eukaryota >>)

\* a genus ending in 'x': the species field as written holds "x " across the genus
L_panax ==
    PlainLine(<< <<"9">>, w_PanaxGinseng, w_PanaxGinseng, w_Panax, w_Araliaceae, w_Primates,
                 w_Mammalia, w_Chordata, w_Animalia, w_Eukaryota >>)
\* the fields of L_sapiens followed by two more
L_extra ==
    PlainLine(<< <<"1">>, w_HomoSapiens, w_sapiens, w_Homo, w_Hominidae, w_Primates,
                 w_Mammalia, w_Chordata, w_Animalia, w_Eukaryota, w_Aves, w_Panax >>)
\* the genus written in capitals ahead of the epithet in the species field
w_GO_gorilla == <<"G", "O", " ", "g", "o">>
L_prefixed ==
    PlainLine(<< <<"1", "0">>, w_GorillaGorilla, w_GO_gorilla, w_Gorilla, w_Hominidae,
                 w_Primates, w_Mammalia, w_Chordata, w_Animalia, w_Eukaryota >>)

\* a line whose first field, the tax_id, is empty: the loader indexes it like any
\* other line of ten fields, under the taxid ''
L_no_taxid ==
    PlainLine(<< Empty, w_HomoSapiens, w_sapiens, w_Homo, w_Hominidae, w_Primates,
                 w_Mammalia, w_Chordata, w_Animalia, w_Eukaryota >>)

RefLines ==
    {L_sapiens, L_binomial, L_sp, L_tautonym, L_short, L_sentinel, L_family, L_dmp_species}

\* the lines the index is built from when only the build is looked at
MaxBuildLines == 3
BuildLines ==
    {L_sapiens, L_binomial, L_sp, L_short, L_family, L_dmp_species, L_panax, L_extra,
     L_prefixed}

Rows ==
    [phylum  : {NaN, w_Chordata},
     class   : {NaN, w_Aves},
     order   : {NaN, w_Primates},
     family  : {NaN, w_Hominidae, w_HOXIDAE},
     genus   : {NaN, w_Homo, w_Gorilla},
     species : {NaN, w_sapiens, w_HomoSapiens, w_gorilla}]

RowRanks == {"phylum", "class", "order", "family", "genus", "species"}

\* the column taxonomy_resolver.process_csv reads each rank from
ResolverColumns ==
    [phylum |-> "Phylum", class |-> "Class", order |-> "Order",
     family |-> "Family", genus |-> "Genus", species |-> "Species"]

\* a row of a CSV that has the given columns only
restrict(row, cols) == [c \in cols |-> row[c]]

\* the row as a CSV with capitalised headers gives it
titled(row) ==
    [c \in {ResolverColumns[r] : r \in DOMAIN row} |->
        row[CHOOSE r \in DOMAIN row : ResolverColumns[r] = c]]

\* the columns of the CSVs that lack some: family, genus and species only, or none
PartialColumnSets == {{"family", "genus", "species"}, {}}

\* the rows taxonomy_resolver.process_csv is run on: all six columns, some of the
\* columns, and the columns under the lower-case headers of taxid_fetcher
ResolverRows ==
    {titled(row) : row \in Rows}
        \cup {titled(restrict(row, cols)) : row \in Rows, cols \in PartialColumnSets}
        \cup {[phylum |-> w_Chordata, class |-> NaN, order |-> w_Primates,
               family |-> w_Hominidae, genus |-> w_Homo, species |-> w_sapiens]}

-----------------------------------------------------------------------------
(* The state machine *)

w_not_found == <<"n", "o", "t", " ", "f", "o", "u", "n", "d">>

\* the columns process_row, process_csv and the error branch add to a row
OutColumns == {"taxid", "matched_rank", "lineage", "lineage_mismatch"}

\* result = row.copy(); result['taxid'] = ...; ...; result['lineage_mismatch'] = ...
with_outcome(row, taxid, matched_rank, lineage, lineage_mismatch) ==
    [k \in (DOMAIN row) \cup OutColumns |->
        CASE k = "taxid"            -> taxid
          [] k = "matched_rank"     -> matched_rank
          [] k = "lineage"          -> lineage
          [] k = "lineage_mismatch" -> lineage_mismatch
          [] OTHER                  -> row[k]]

\* output_df['taxid'] = None, ...: the four columns before a row is written
NoRow == [taxid |-> None, matched_rank |-> None, lineage |-> None, lineage_mismatch |-> None]

\* output_csv before result_df.to_csv
NotWritten == [written |-> FALSE, rows |-> <<>>]

\* before taxid_fetcher.process_csv has read its input
NoBatch ==
    /\ columns = {}
    /\ rows = <<>>
    /\ futures = <<>>
    /\ yielded = <<>>
    /\ results = <<>>
    /\ processed_rows = 0
    /\ successful_rows = 0
    /\ output = NotWritten

Init ==
    /\ file = <<>>
    /\ tax_data = empty_tax_data
    /\ line_count = 0
    /\ species_indexed = 0
    /\ objects = no_objects
    /\ pc = "load"
    /\ query = [r \in RowRanks |-> <<>>]
    /\ result = Unmatched
    /\ tool = "none"
    /\ out = NoRow
    /\ NoBatch

\* one iteration of "for line in file" in load_rankedlineage, the line drawn from a pool
ReadFrom(pool, max) ==
    /\ pc = "load"
    /\ Len(file) < max
    /\ \E line \in pool :
        LET parts == parts_of(line)
            valid == Len(parts) >= MinFields
            lineage == lineage_of(parts)
        IN  /\ file' = Append(file, line)
            /\ tax_data' = load_line(tax_data, line)
            /\ objects' = load_line_objects(objects, line)
            /\ line_count' = IF valid THEN line_count + 1 ELSE line_count
            /\ species_indexed' =
                   IF valid /\ Truthy(lineage.species) /\ Truthy(lineage.genus)
                   THEN species_indexed + 1
                   ELSE species_indexed
    /\ UNCHANGED <<pc, query, result, tool, out, batch>>

ReadLine == ReadFrom(RefLines, MaxLines)

\* end of file: load_rankedlineage returns tax_data
EndOfFile ==
    /\ pc = "load"
    /\ pc' = "ready"
    /\ UNCHANGED <<file, tax_data, line_count, species_indexed, objects,
                   query, result, tool, out, batch>>

\* row.get(column, ''): the cell, '' when the row has no such column
get(row, column) == IF column \in DOMAIN row THEN row[column] ELSE <<>>

\* pd.isna(v) for a cell or None
isna(v) == v = None \/ v = NaN

\* taxid_fetcher.process_row: str(cell) if pd.notna(cell) else ''
fetcher_query(row) ==
    [r \in RowRanks |-> IF isna(get(row, r)) THEN <<>> ELSE format(get(row, r))]

\* row[column] if column in row else None
resolver_cell(row, column) == IF column \in DOMAIN row THEN row[column] ELSE None

\* taxonomy_resolver.process_csv: the cell under the capitalised header, a missing
\* cell or column becomes 'not collected'
resolver_query(row) ==
    [r \in RowRanks |->
        IF isna(resolver_cell(row, ResolverColumns[r]))
        THEN w_not_collected
        ELSE resolver_cell(row, ResolverColumns[r])]

resolve_query(q, td) ==
    resolve_taxid(q.phylum, q.class, q.order, q.family, q.genus, q.species, td)

\* taxonomy_resolver.process_csv: the four cells written at the row's index
resolver_result_row(row, r) ==
    with_outcome(row,
                 IF r.taxid = None THEN w_not_collected ELSE r.taxid,
                 r.matched_rank,
                 IF r.lineage = None THEN w_not_collected ELSE r.lineage,
                 IF r.is_mismatch THEN "Yes" ELSE "No")

-----------------------------------------------------------------------------
(* The copy of the engine in taxid_fetcher.py *)

\* taxid_fetcher.load_rankedlineage: the species of a line, species = None first
fetcher_derive_species(species_field, genus, scientific_name) ==
    LET species ==
            IF Truthy(species_field)
            THEN IF Truthy(genus) /\ startswith(lower(species_field), lower(genus))
                 THEN strip(from(species_field, Len(genus)))
                 ELSE species_field
            ELSE IF Truthy(genus) /\ startswith(scientific_name, genus)
                 THEN strip(from(scientific_name, Len(genus)))
                 ELSE None
    IN  IF Truthy(species)
           /\ \E x \in 1..Len(SpeciesMarkers) : contains(lower(species), SpeciesMarkers[x])
        THEN None
        ELSE species

\* taxid_fetcher.load_rankedlineage: one iteration of "for line in file"
fetcher_load_line(td, line) ==
    LET parts == parts_of(line) IN
    IF Len(parts) < MinFields THEN td
    ELSE LET species == fetcher_derive_species(parts[3], parts[4], parts[2])
             lineage ==
                 [taxid |-> parts[1], scientific_name |-> parts[2], species |-> species,
                  genus |-> parts[4], family |-> parts[5], order |-> parts[6],
                  class |-> parts[7], phylum |-> parts[8], kingdom |-> parts[9],
                  superkingdom |-> parts[10]]
         IN  [by_scientific_name |->
                  dict_set(td.by_scientific_name, lower(parts[2]), lineage),
              by_species |->
                  IF Truthy(species) /\ Truthy(parts[4])
                  THEN dict_set(td.by_species,
                                lower(parts[4]) \o <<" ">> \o lower(species), lineage)
                  ELSE td.by_species,
              by_genus |->
                  IF Truthy(parts[4])
                  THEN dict_append(td.by_genus, lower(parts[4]), lineage) ELSE td.by_genus,
              by_family |->
                  IF Truthy(parts[5])
                  THEN dict_append(td.by_family, lower(parts[5]), lineage) ELSE td.by_family,
              by_order |->
                  IF Truthy(parts[6])
                  THEN dict_append(td.by_order, lower(parts[6]), lineage) ELSE td.by_order,
              by_class |->
                  IF Truthy(parts[7])
                  THEN dict_append(td.by_class, lower(parts[7]), lineage) ELSE td.by_class,
              by_phylum |->
                  IF Truthy(parts[8])
                  THEN dict_append(td.by_phylum, lower(parts[8]), lineage) ELSE td.by_phylum]

\* the indices taxid_fetcher.load_rankedlineage builds from the first n of the lines
RECURSIVE fetcher_Built(_, _)
fetcher_Built(lines, n) ==
    IF n = 0 THEN empty_tax_data
    ELSE fetcher_load_line(fetcher_Built(lines, n - 1), lines[n])

\* isinstance(v, str): of the values a cell can hold, None and NaN are no str
isinstance_str(v) == v # None /\ v # NaN

\* the loop over ranks_to_check comparing the two values as they are written
RECURSIVE fetcher_check_ranks_case_sensitive(_, _, _, _)
fetcher_check_ranks_case_sensitive(lineage, target_ranks, ranks_to_check, i) ==
    IF i > Len(ranks_to_check) THEN FALSE
    ELSE LET rank == ranks_to_check[i]
             target_value == get(target_ranks, rank)
             lineage_value == get(lineage, rank)
         IN  IF ~Truthy(target_value) \/ ~Truthy(lineage_value)
             THEN fetcher_check_ranks_case_sensitive(lineage, target_ranks,
                                                     ranks_to_check, i + 1)
             ELSE format(lineage_value) = format(target_value)

\* the loop over ranks_to_check, from position i on: an empty value on either side
\* continues, the first rank with both values returns
RECURSIVE fetcher_check_ranks(_, _, _, _)
fetcher_check_ranks(lineage, target_ranks, ranks_to_check, i) ==
    IF i > Len(ranks_to_check) THEN FALSE
    ELSE LET rank == ranks_to_check[i]
             target_value == get(target_ranks, rank)
             lineage_value == get(lineage, rank)
         IN  IF ~Truthy(target_value) \/ ~Truthy(lineage_value)
             THEN fetcher_check_ranks(lineage, target_ranks, ranks_to_check, i + 1)
             ELSE lower(format(lineage_value)) = lower(format(target_value))

fetcher_validate_against_higher_ranks(lineage, target_ranks, validation_level) ==
    LET ranks_to_check ==
            IF validation_level \in DOMAIN validation_ranks
            THEN validation_ranks[validation_level]
            ELSE <<>>
    IN  fetcher_check_ranks(lineage, target_ranks, ranks_to_check, 1)

\* the loops with the candidate validated at the first of the levels alone
fetcher_first_validated_at_first_level(matches, target_ranks, levels) ==
    LET ok == {i \in 1..Len(matches) :
                  fetcher_validate_against_higher_ranks(matches[i], target_ranks, levels[1])}
    IN  IF ok = {} THEN 0 ELSE CHOOSE i \in ok : \A j \in ok : i <= j

\* for lineage in matches: for level in levels: if validate_against_higher_ranks(...):
\* return: the position of the lineage returned for, 0 when the loops run to their end
fetcher_first_validated(matches, target_ranks, levels) ==
    LET ok == {i \in 1..Len(matches) :
                  \E l \in 1..Len(levels) :
                      fetcher_validate_against_higher_ranks(matches[i], target_ranks, levels[l])}
    IN  IF ok = {} THEN 0 ELSE CHOOSE i \in ok : \A j \in ok : i <= j

\* "Try species-level match first"; no str method raises on a str
fetcher_species_attempt(target_ranks, td) ==
    LET species == target_ranks.species
        genus == target_ranks.genus
    IN  IF Truthy(species) /\ Truthy(genus) /\ isinstance_str(species) /\ isinstance_str(genus)
        THEN LET species_name ==
                     IF startswith(lower(species), lower(genus))
                     THEN strip(from(species, Len(genus)))
                     ELSE species
                 species_key == lower(genus) \o <<" ">> \o lower(species_name)
             IN  IF species_key \in DOMAIN td.by_species
                    /\ fetcher_first_validated(<<td.by_species[species_key]>>, target_ranks,
                                               validation_levels) # 0
                 THEN create_return_tuple(td.by_species[species_key], "species", FALSE)
                 ELSE NoReturn
        ELSE NoReturn

\* "Try genus-level match"
fetcher_genus_attempt(target_ranks, td) ==
    LET genus == target_ranks.genus IN
    IF Truthy(genus) /\ isinstance_str(genus) /\ lower(genus) \in DOMAIN td.by_genus
    THEN LET matches == td.by_genus[lower(genus)]
             hit == fetcher_first_validated(matches, target_ranks, validation_levels)
         IN  IF hit # 0 THEN create_return_tuple(matches[hit], "genus", FALSE) ELSE NoReturn
    ELSE NoReturn

\* the body of the loop with a validation that rejects a candidate disagreeing
\* with the query at any rank where both give a value
fetcher_rank_attempt_cascading(target_ranks, td, rank) ==
    LET rank_value == get(target_ranks, rank) IN
    IF Truthy(rank_value) /\ isinstance_str(rank_value)
       /\ lower(rank_value) \in DOMAIN by_rank(td, rank)
    THEN LET matches == by_rank(td, rank)[lower(rank_value)]
             ok == {i \in 1..Len(matches) :
                       \A l \in 1..Len(validation_levels) :
                           LET r == validation_levels[l] IN
                           (Truthy(target_ranks[r]) /\ Truthy(matches[i][r]))
                               => lower(matches[i][r]) = lower(target_ranks[r])}
         IN  IF ok # {}
             THEN create_return_tuple(matches[CHOOSE i \in ok : \A j \in ok : i <= j],
                                      rank, FALSE)
             ELSE NoReturn
    ELSE NoReturn

\* the body of "for rank in validation_levels" for one rank
fetcher_rank_attempt(target_ranks, td, rank) ==
    LET rank_value == get(target_ranks, rank) IN
    IF Truthy(rank_value) /\ isinstance_str(rank_value)
       /\ lower(rank_value) \in DOMAIN by_rank(td, rank)
    THEN LET matches == by_rank(td, rank)[lower(rank_value)]
             hit == fetcher_first_validated(matches, target_ranks, <<rank>>)
         IN  IF hit # 0 THEN create_return_tuple(matches[hit], rank, FALSE) ELSE NoReturn
    ELSE NoReturn

\* "Try matches at each higher rank", from position i of validation_levels on
RECURSIVE fetcher_higher_rank_attempts(_, _, _)
fetcher_higher_rank_attempts(target_ranks, td, i) ==
    IF i > Len(validation_levels) THEN NoReturn
    ELSE LET r == fetcher_rank_attempt(target_ranks, td, validation_levels[i]) IN
         IF r # NoReturn THEN r ELSE fetcher_higher_rank_attempts(target_ranks, td, i + 1)

fetcher_resolve_taxid(phylum, class_name, order, family, genus, species, td) ==
    LET target_ranks ==
            [phylum |-> phylum, class |-> class_name, order |-> order,
             family |-> family, genus |-> genus, species |-> species]
        s == fetcher_species_attempt(target_ranks, td)
        g == fetcher_genus_attempt(target_ranks, td)
        h == fetcher_higher_rank_attempts(target_ranks, td, 1)
    IN  IF s # NoReturn THEN s
        ELSE IF g # NoReturn THEN g
        ELSE IF h # NoReturn THEN h
        ELSE Unmatched

fetcher_resolve_query(q, td) ==
    fetcher_resolve_taxid(q.phylum, q.class, q.order, q.family, q.genus, q.species, td)

\* taxid_fetcher.process_row: the four cells added to the copy of the row
fetcher_result_row(row, r) ==
    with_outcome(row,
                 IF Truthy(r.taxid) THEN r.taxid ELSE w_not_found,
                 r.matched_rank,
                 IF Truthy(r.lineage) THEN r.lineage ELSE <<>>,
                 IF r.is_mismatch THEN "Yes" ELSE "No")

process_row(row, td) ==
    fetcher_result_row(row, fetcher_resolve_query(fetcher_query(row), td))

-----------------------------------------------------------------------------
(* One row of either script against the indices *)

FetcherRow ==
    /\ pc = "ready"
    /\ \E row \in Rows :
        /\ query' = fetcher_query(row)
        /\ result' = fetcher_resolve_query(fetcher_query(row), tax_data)
        /\ out' = fetcher_result_row(row, result')
    /\ tool' = "fetcher"
    /\ pc' = "resolved"
    /\ UNCHANGED <<file, tax_data, line_count, species_indexed, objects, batch>>

ResolverRow ==
    /\ pc = "ready"
    /\ \E row \in ResolverRows :
        /\ query' = resolver_query(row)
        /\ result' = resolve_query(resolver_query(row), tax_data)
        /\ out' = resolver_result_row(row, result')
    /\ tool' = "resolver"
    /\ pc' = "resolved"
    /\ UNCHANGED <<file, tax_data, line_count, species_indexed, objects, batch>>

Next == ReadLine \/ EndOfFile \/ FetcherRow \/ ResolverRow

Spec == Init /\ [][Next]_vars

\* the rows of either script against files of lines that share genus, family and
\* species keys
RowLines ==
    {L_sapiens, L_binomial, L_tautonym, L_prefixed, L_family, L_sentinel, L_no_taxid}

ReadRowLine == ReadFrom(RowLines, MaxLines)

NextRow == ReadRowLine \/ EndOfFile \/ FetcherRow \/ ResolverRow

SpecRow == Init /\ [][NextRow]_vars

\* load_rankedlineage alone, on the larger pool of lines
ReadBuildLine == ReadFrom(BuildLines, MaxBuildLines)

NextBuild == ReadBuildLine \/ EndOfFile

SpecBuild == Init /\ [][NextBuild]_vars

-----------------------------------------------------------------------------
(* taxid_fetcher.process_csv: the rows resolved by a pool of worker threads *)

\* ThreadPoolExecutor(max_workers=4)
max_workers == 4

MaxRows == 3

w_error == <<"e", "r", "r", "o", "r">>

required_columns == RowRanks

\* the columns of the input CSV: all six, or all but phylum
ColumnSets == {RowRanks, RowRanks \ {"phylum"}}

\* the rows of the input CSV, before the columns the file lacks are taken away
BatchRows ==
    {[phylum |-> w_Chordata, class |-> NaN, order |-> NaN,
      family |-> w_Hominidae, genus |-> w_Homo, species |-> w_sapiens],
     [phylum |-> NaN, class |-> NaN, order |-> NaN,
      family |-> w_HOXIDAE, genus |-> NaN, species |-> NaN]}

\* the reference files the batches run against
BatchFiles == {<<L_sapiens, L_family>>, <<L_binomial, L_sp>>}

\* process_row ran as if resolve_taxid took the candidates of the query's genus
\* out of by_genus
tax_data_consumed(td, row) ==
    [td EXCEPT !.by_genus =
        [k \in (DOMAIN td.by_genus) \ {lower(fetcher_query(row).genus)} |-> td.by_genus[k]]]

\* tax_data after process_row(row, tax_data): the row is copied, the indices are
\* looked up with "in" and [] and never assigned to
tax_data_after(td, row) == td

\* process_row that appends the row it has built to the shared list itself
results_appended_by_worker(res, row_result) == Append(res, row_result)

\* results after process_row has returned in its worker thread: the row goes into
\* the Future, the list is appended to by the loop over as_completed alone
results_after_worker(res, row_result) == res

\* the error branch: the row at position processed_rows, marked as an error
error_row(rws, processed) ==
    with_outcome(rws[processed + 1], w_error, "error", <<>>, "")

\* the error branch that only reports the error
results_without_error_row(res, rws, processed) == res

\* results after the error branch
results_after_error(res, rws, processed) == Append(res, error_row(rws, processed))

\* process_csv that gives up when a column is missing
proceeds_when_complete(missing_columns) == missing_columns = {}

\* whether process_csv goes on to the rows: a missing column is only reported
proceeds(missing_columns) == TRUE

HasSpecies(line) ==
    /\ IsValidLine(line)
    /\ Truthy(lineage_of(parts_of(line)).species)
    /\ Truthy(lineage_of(parts_of(line)).genus)

\* load_rankedlineage has returned the indices of one of the reference files
InitDispatch ==
    /\ file \in BatchFiles
    /\ tax_data = Built(file, Len(file))
    /\ line_count = Len(SelectSeq(file, IsValidLine))
    /\ species_indexed = Len(SelectSeq(file, HasSpecies))
    /\ objects = BuiltObjects(file, Len(file))
    /\ pc = "ready"
    /\ query = [r \in RowRanks |-> <<>>]
    /\ result = Unmatched
    /\ tool = "fetcher"
    /\ out = NoRow
    /\ NoBatch

\* the result of a Future that has none
NoResult == [set |-> FALSE]

\* the local variables of a call of process_row that has not begun, or is over
NoLocals == [set |-> FALSE]

\* a Future and the call of process_row it stands for
Future(state, raised, outcome) ==
    [state |-> state, raised |-> raised, result |-> outcome, locals |-> NoLocals]

\* process_row up to the call of resolve_taxid: result = row.copy() and the six
\* strings read from the row, all of them local variables of the call
locals_of(row) ==
    [set |-> TRUE,
     result |-> row,
     phylum |-> fetcher_query(row).phylum,
     class_name |-> fetcher_query(row).class,
     order |-> fetcher_query(row).order,
     family |-> fetcher_query(row).family,
     genus |-> fetcher_query(row).genus,
     species |-> fetcher_query(row).species]

\* process_row that keeps its variables at module level, one set for every thread
entered_with_globals(futs, i, row) ==
    [j \in 1..Len(futs) |->
        [futs[j] EXCEPT !.state = IF j = i THEN "running" ELSE @,
                        !.locals = locals_of(row)]]

\* the futures once a worker thread runs process_row for task i: the call has
\* local variables of its own
entered(futs, i, row) ==
    [futs EXCEPT ![i].state = "running", ![i].locals = locals_of(row)]

\* process_row from the call of resolve_taxid on, as the thread of these local
\* variables runs it: the four cells are added to the copy of the row
returned_row(locals, td) ==
    fetcher_result_row(locals.result,
                       fetcher_resolve_taxid(locals.phylum, locals.class_name, locals.order,
                                             locals.family, locals.genus, locals.species, td))

\* pd.read_csv: the columns and the rows of the input CSV
ReadCsv ==
    /\ pc = "ready"
    /\ \E cols \in ColumnSets, n \in 0..MaxRows :
        \E rs \in [1..n -> BatchRows] :
            /\ columns' = cols
            /\ rows' = [i \in 1..n |-> restrict(rs[i], cols)]
    /\ pc' = "check"
    /\ UNCHANGED <<file, tax_data, line_count, species_indexed, objects,
                   query, result, tool, out,
                   futures, yielded, results, processed_rows, successful_rows, output>>

\* the test of the columns, then results = [] and the counters at 0; with no row
\* the comprehension over rows ends at once
CheckColumns ==
    /\ pc = "check"
    /\ proceeds(required_columns \ columns)
    /\ futures' = <<>>
    /\ yielded' = <<>>
    /\ results' = <<>>
    /\ processed_rows' = 0
    /\ successful_rows' = 0
    /\ pc' = IF Len(rows) = 0 THEN "collect" ELSE "submit"
    /\ UNCHANGED <<file, tax_data, line_count, species_indexed, objects,
                   query, result, tool, out,
                   columns, rows, output>>

\* one executor.submit(process_row, row, tax_data) of the comprehension over rows:
\* the task of the next row is handed to the pool, which may run the tasks it has
\* while the later rows are still to be submitted; after the last row the loop
\* over as_completed begins
Submit ==
    /\ pc = "submit"
    /\ Len(futures) < Len(rows)
    /\ futures' = Append(futures, Future("pending", FALSE, NoResult))
    /\ pc' = IF Len(futures) + 1 = Len(rows) THEN "collect" ELSE "submit"
    /\ UNCHANGED <<file, tax_data, line_count, species_indexed, objects,
                   query, result, tool, out,
                   columns, rows, yielded, results, processed_rows, successful_rows, output>>

\* the pool has been handed tasks: the comprehension is under way or over
PoolAtWork == pc \in {"submit", "collect"}

Running == {i \in 1..Len(futures) : futures[i].state = "running"}

Greatest(S) == CHOOSE i \in S : \A j \in S : j <= i

\* the tasks that have left the queue once task i has: the worker threads take
\* the tasks first in, first out, so every task up to i and up to the last one
\* that is no longer pending
Taken(i) ==
    1..Greatest({i} \cup {j \in 1..Len(futures) : futures[j].state # "pending"})

\* the worker threads at work once task i has left the queue: one for each task
\* taken and not finished, a thread that has taken its task and not yet set the
\* Future running among them
Occupied(i) == {j \in Taken(i) : futures[j].state # "finished"}

\* a worker thread that has taken task i from the queue sets the Future running
\* and runs process_row up to the call of resolve_taxid; the threads that took the
\* earlier tasks may not have come that far
WorkerStart ==
    \E i \in 1..Len(futures) :
        /\ PoolAtWork
        /\ futures[i].state = "pending"
        /\ Cardinality(Occupied(i)) <= max_workers
        /\ futures' = entered(futures, i, rows[i])
        /\ UNCHANGED <<file, tax_data, line_count, species_indexed, objects,
                       pc, query, result, tool, out,
                       columns, rows, yielded, results, processed_rows, successful_rows, output>>

\* resolve_taxid runs on the strings of the call and process_row returns in its
\* worker thread
WorkerReturn ==
    \E i \in 1..Len(futures) :
        /\ PoolAtWork
        /\ futures[i].state = "running"
        /\ LET row_result == returned_row(futures[i].locals, tax_data) IN
            /\ futures' = [futures EXCEPT ![i] = Future("finished", FALSE, row_result)]
            /\ results' = results_after_worker(results, row_result)
        /\ tax_data' = tax_data_after(tax_data, rows[i])
        /\ UNCHANGED <<file, line_count, species_indexed, objects, pc, query, result, tool, out,
                       columns, rows, yielded, processed_rows, successful_rows, output>>

\* process_row raises in its worker thread: the Future keeps the exception
WorkerRaise ==
    \E i \in 1..Len(futures) :
        /\ PoolAtWork
        /\ futures[i].state = "running"
        /\ futures' = [futures EXCEPT ![i] = Future("finished", TRUE, NoResult)]
        /\ UNCHANGED <<file, tax_data, line_count, species_indexed, objects,
                       pc, query, result, tool, out,
                       columns, rows, yielded, results, processed_rows, successful_rows, output>>

\* as_completed hands over a finished future it has not handed over yet
Completed(i) ==
    /\ futures[i].state = "finished"
    /\ \A k \in 1..Len(yielded) : yielded[k] # i

\* the loop body when future.result() returns
CollectResult ==
    \E i \in 1..Len(futures) :
        /\ pc = "collect"
        /\ Completed(i)
        /\ ~futures[i].raised
        /\ yielded' = Append(yielded, i)
        /\ results' = Append(results, futures[i].result)
        /\ processed_rows' = processed_rows + 1
        /\ successful_rows' = successful_rows + 1
        /\ UNCHANGED <<file, tax_data, line_count, species_indexed, objects,
                       pc, query, result, tool, out,
                       columns, rows, futures, output>>

\* the loop body when future.result() raises
CollectError ==
    \E i \in 1..Len(futures) :
        /\ pc = "collect"
        /\ Completed(i)
        /\ futures[i].raised
        /\ yielded' = Append(yielded, i)
        /\ results' = results_after_error(results, rows, processed_rows)
        /\ processed_rows' = processed_rows + 1
        /\ UNCHANGED <<file, tax_data, line_count, species_indexed, objects,
                       pc, query, result, tool, out,
                       columns, rows, futures, successful_rows, output>>

\* every future has been handed over: the results are written to output_csv
SaveOutput ==
    /\ pc = "collect"
    /\ Len(yielded) = Len(futures)
    /\ output' = [written |-> TRUE, rows |-> results]
    /\ pc' = "done"
    /\ UNCHANGED <<file, tax_data, line_count, species_indexed, objects,
                   query, result, tool, out,
                   columns, rows, futures, yielded, results, processed_rows, successful_rows>>

NextDispatch ==
    \/ ReadCsv
    \/ CheckColumns
    \/ Submit
    \/ WorkerStart
    \/ WorkerRaise
    \/ WorkerReturn
    \/ CollectResult
    \/ CollectError
    \/ SaveOutput

SpecDispatch == InitDispatch /\ [][NextDispatch]_vars

\* the pool runs every submitted task and the loop takes every finished future
SpecDispatchFair == SpecDispatch /\ WF_vars(NextDispatch)

-----------------------------------------------------------------------------
(* Vocabulary of the properties *)

Resolved == pc = "resolved"

\* the positions of the file's valid lines, and the record of each
ValidLines == {i \in 1..Len(file) : Len(parts_of(file[i])) >= MinFields}
RecordAt(i) == lineage_of(parts_of(file[i]))

HigherRanks == {"family", "order", "class", "phylum"}

\* candidate and query both give a value at the rank, the same one up to case
Agrees(lineage, q, rank) ==
    /\ lineage[rank] # <<>>
    /\ q[rank] # <<>>
    /\ lower(lineage[rank]) = lower(q[rank])

AgreesSomewhere(lineage, q) == \E r \in HigherRanks : Agrees(lineage, q, r)

Provided(v) == v # <<>>

\* the composite key the species attempt looks up for the query
QuerySpeciesKey == query_species_key(query.genus, query.species)

SpeciesHit ==
    /\ Provided(query.genus)
    /\ Provided(query.species)
    /\ QuerySpeciesKey \in DOMAIN tax_data.by_species

GenusHit ==
    /\ Provided(query.genus)
    /\ lower(query.genus) \in DOMAIN tax_data.by_genus

GenusCandidates == tax_data.by_genus[lower(query.genus)]

RankHit(rank) ==
    /\ Provided(query[rank])
    /\ lower(query[rank]) \in DOMAIN by_rank(tax_data, rank)

RankCandidates(rank) == by_rank(tax_data, rank)[lower(query[rank])]

Least(S) == CHOOSE i \in S : \A j \in S : i <= j

-----------------------------------------------------------------------------
(* C1: species attempt *)

\* C1 as claimed: on a by_species hit the result has matched_rank "species" if and
\* only if candidate and query agree at family; agreement at order, class or
\* phylum alone never gives a species-rank result.
C1_FamilyOnly ==
    (Resolved /\ SpeciesHit) =>
        (result.matched_rank = "species"
            <=> Agrees(tax_data.by_species[QuerySpeciesKey], query, "family"))

\* C1 amended: on a by_species hit the result has matched_rank "species", with the
\* candidate's taxid, if and only if candidate and query agree at one or more of
\* family, order, class, phylum.
C1_AnyHigherRank ==
    (Resolved /\ SpeciesHit) =>
        LET candidate == tax_data.by_species[QuerySpeciesKey] IN
        /\ result.matched_rank = "species" <=> AgreesSomewhere(candidate, query)
        /\ result.matched_rank = "species" => result.taxid = candidate.taxid

\* a species-rank result for a candidate that disagrees with the query at family
C1_Witness ==
    /\ Resolved
    /\ SpeciesHit
    /\ result.matched_rank = "species"
    /\ Provided(query.family)
    /\ ~Agrees(tax_data.by_species[QuerySpeciesKey], query, "family")

-----------------------------------------------------------------------------
(* C2: genus attempt *)

\* C2 as claimed: when the species attempt accepted nothing and the query genus is
\* a key of by_genus, the genus-rank result is the first candidate agreeing with
\* the query at family, and there is no genus-rank result when no candidate does.
C2_FirstFamilyAgreeing ==
    (Resolved /\ result.matched_rank # "species" /\ GenusHit) =>
        LET ok == {i \in 1..Len(GenusCandidates) : Agrees(GenusCandidates[i], query, "family")}
        IN  IF ok = {} THEN result.matched_rank # "genus"
            ELSE /\ result.matched_rank = "genus"
                 /\ result.taxid = GenusCandidates[Least(ok)].taxid

\* C2 amended: the genus-rank result is the first candidate, in file order, that
\* agrees with the query at one or more of family, order, class, phylum, and
\* there is no genus-rank result when no candidate does.
C2_FirstAgreeingSomewhere ==
    (Resolved /\ result.matched_rank # "species" /\ GenusHit) =>
        LET ok == {i \in 1..Len(GenusCandidates) : AgreesSomewhere(GenusCandidates[i], query)}
        IN  IF ok = {} THEN result.matched_rank # "genus"
            ELSE /\ result.matched_rank = "genus"
                 /\ result.taxid = GenusCandidates[Least(ok)].taxid

\* a genus-rank result for an earlier candidate that disagrees at family, with a
\* later candidate of the list that agrees at family
C2_Witness ==
    /\ Resolved
    /\ result.matched_rank = "genus"
    /\ GenusHit
    /\ \E i, j \in 1..Len(GenusCandidates) :
        /\ i < j
        /\ result.taxid = GenusCandidates[i].taxid
        /\ ~Agrees(GenusCandidates[i], query, "family")
        /\ Agrees(GenusCandidates[j], query, "family")
        /\ GenusCandidates[j].taxid # GenusCandidates[i].taxid

-----------------------------------------------------------------------------
(* C3: rank-by-rank attempt *)

\* the ranks of validation_levels ahead of position i at which the query's value
\* is a key of the rank's index
EarlierRankHits(i) == {j \in 1..(i - 1) : RankHit(validation_levels[j])}

\* C3: when neither the species nor the genus attempt accepted, the result is at
\* the first rank of family, order, class, phylum whose query value is a key of
\* that rank's index; it carries the first candidate of that key's list agreeing
\* with the query at that rank, whatever the query gives at the other ranks.
C3_RankByRank ==
    (Resolved /\ result.matched_rank \notin {"species", "genus"}) =>
        \A i \in 1..Len(validation_levels) :
            LET rank == validation_levels[i] IN
            (RankHit(rank) /\ EarlierRankHits(i) = {}) =>
                LET ok == {c \in 1..Len(RankCandidates(rank)) :
                              Agrees(RankCandidates(rank)[c], query, rank)}
                IN  /\ ok # {}
                    /\ result.matched_rank = rank
                    /\ result.taxid = RankCandidates(rank)[Least(ok)].taxid

\* a family-rank result for a record whose class disagrees with the class the
\* query gives
C3_Witness ==
    /\ Resolved
    /\ result.matched_rank = "family"
    /\ RankHit("family")
    /\ result.taxid = RankCandidates("family")[1].taxid
    /\ Provided(query.class)
    /\ Provided(RankCandidates("family")[1].class)
    /\ ~Agrees(RankCandidates("family")[1], query, "class")

-----------------------------------------------------------------------------
(* C4: precedence of the steps *)

SpeciesAccepts ==
    SpeciesHit /\ AgreesSomewhere(tax_data.by_species[QuerySpeciesKey], query)

GenusAccepts ==
    GenusHit /\ \E c \in 1..Len(GenusCandidates) : AgreesSomewhere(GenusCandidates[c], query)

RankAccepts(rank) ==
    RankHit(rank)
        /\ \E c \in 1..Len(RankCandidates(rank)) : Agrees(RankCandidates(rank)[c], query, rank)

Accepts(rank) ==
    CASE rank = "species" -> SpeciesAccepts
      [] rank = "genus"   -> GenusAccepts
      [] OTHER            -> RankAccepts(rank)

\* most specific first
Precedence == <<"species", "genus", "family", "order", "class", "phylum">>

\* C4: a result with matched_rank R is returned only if the step of R accepts a
\* candidate and the step of every rank more specific than R accepts none.
C4_MostSpecificRank ==
    Resolved =>
        \A i \in 1..Len(Precedence) :
            result.matched_rank = Precedence[i] =>
                /\ Accepts(Precedence[i])
                /\ \A j \in 1..(i - 1) : ~Accepts(Precedence[j])

\* a family-rank result for a query that gives a species and a genus, the genus
\* being a key of by_genus with no candidate accepted, while a less specific rank
\* accepts too
C4_Witness ==
    /\ Resolved
    /\ result.matched_rank = "family"
    /\ Provided(query.species)
    /\ GenusHit
    /\ ~GenusAccepts
    /\ \E r \in {"order", "class", "phylum"} : Accepts(r)

-----------------------------------------------------------------------------
(* C5: the unmatched result *)

\* the candidates the step of a rank chooses from
StepCandidates(rank) ==
    CASE rank = "species" -> <<tax_data.by_species[QuerySpeciesKey]>>
      [] rank = "genus"   -> GenusCandidates
      [] OTHER            -> RankCandidates(rank)

\* C5: the result is (None, 'unmatched', None, False) exactly when no step accepts
\* a candidate; otherwise matched_rank is one of the six ranks and taxid and
\* lineage string both come from one record among that step's candidates.
C5_UnmatchedIffNoStep ==
    Resolved =>
        /\ result.matched_rank = "unmatched"
               <=> \A i \in 1..Len(Precedence) : ~Accepts(Precedence[i])
        /\ result.matched_rank = "unmatched" => result = Unmatched
        /\ result.matched_rank # "unmatched" =>
               /\ \E i \in 1..Len(Precedence) : result.matched_rank = Precedence[i]
               /\ result.is_mismatch = FALSE
               /\ \E c \in 1..Len(StepCandidates(result.matched_rank)) :
                      LET record == StepCandidates(result.matched_rank)[c] IN
                      /\ result.taxid = record.taxid
                      /\ result.lineage = create_return_tuple(record, "", FALSE).lineage
                      /\ result.lineage # None

\* an unmatched result although the query's genus is a key of by_genus and the
\* query gives a family, the index holding families
C5_Witness ==
    /\ Resolved
    /\ result = Unmatched
    /\ GenusHit
    /\ Provided(query.family)
    /\ tax_data.by_family # EmptyDict

-----------------------------------------------------------------------------
(* C6: a rank that is not provided *)

NotProvided(v) == v = <<>> \/ v = w_not_collected

IndexNonEmpty == tax_data.by_scientific_name # EmptyDict

\* C6: a query whose six ranks are each the empty string or 'not collected'
\* resolves to 'unmatched' with no taxid, against every non-empty index.
C6_SentinelNeverMatched ==
    (Resolved /\ IndexNonEmpty /\ \A r \in RowRanks : NotProvided(query[r])) =>
        /\ result.matched_rank = "unmatched"
        /\ result.taxid = None

-----------------------------------------------------------------------------
(* C7: the validation predicate *)

\* the query, or a record, with every rank but one replaced by a value
OnlyRank(ranks, rank, other) == [r \in DOMAIN ranks |-> IF r = rank THEN ranks[r] ELSE other]

\* the records the index holds
IndexRecords ==
    {tax_data.by_scientific_name[k] : k \in DOMAIN tax_data.by_scientific_name}

\* C7: for each of family, order, class, phylum and each record of the index,
\* validation at the rank holds exactly when record and query both give a value
\* there and the values are equal up to case, and it is unchanged when every
\* other rank of the query and of the record is emptied or overwritten.
C7_SingleRank ==
    Resolved =>
        \A lineage \in IndexRecords : \A rank \in HigherRanks :
            LET verdict == validate_against_higher_ranks(lineage, query, rank) IN
            /\ verdict <=> Agrees(lineage, query, rank)
            /\ (query[rank] = <<>> \/ lineage[rank] = <<>>) => ~verdict
            /\ \A other \in {<<>>, w_Aves} :
                /\ verdict = validate_against_higher_ranks(
                                 lineage, OnlyRank(query, rank, other), rank)
                /\ verdict = validate_against_higher_ranks(
                                 OnlyRank(lineage, rank, other), query, rank)

\* a record that fails validation at family, the query giving no family, while
\* record and query agree at order
C7_Witness ==
    /\ Resolved
    /\ \E lineage \in IndexRecords :
        /\ query.family = <<>>
        /\ lineage.family # <<>>
        /\ Agrees(lineage, query, "order")
        /\ ~validate_against_higher_ranks(lineage, query, "family")
        /\ validate_against_higher_ranks(lineage, query, "order")

-----------------------------------------------------------------------------
(* C8: the lineage string *)

\* the value of a field for the lineage string: the empty string for a field the
\* record lacks
FieldOrEmpty(lineage, key) == IF lineage[key] = None THEN <<>> ELSE lineage[key]

\* the eight "rank:value" pairs of a record, joined with ';'
EightPairs(lineage) ==
    join(<<";">>,
         [i \in 1..Len(LineageKeys) |->
             LineageRanks[i] \o <<":">> \o FieldOrEmpty(lineage, LineageKeys[i])])

\* C8: the lineage string of a matched result is the ';'-join of the eight
\* 'rank:value' pairs of the accepted record, with the empty string for a field
\* the record lacks (a discarded or underived species included).
C8_LineageString ==
    (Resolved /\ result.matched_rank # "unmatched") =>
        \E c \in 1..Len(StepCandidates(result.matched_rank)) :
            LET record == StepCandidates(result.matched_rank)[c] IN
            /\ result.taxid = record.taxid
            /\ result.lineage = EightPairs(record)

-----------------------------------------------------------------------------
(* C9: a species line resolves to its own id *)

NoWhitespace(s) == \A i \in 1..Len(s) : s[i] \notin Whitespace

NoMarker(s) == \A m \in 1..Len(SpeciesMarkers) : ~contains(lower(s), SpeciesMarkers[m])

\* line j carries the genus and species of line i: the same genus up to case, and
\* the epithet of line i as its species field, as its derived species, or after
\* the genus in its species field
SameGenusAndSpecies(i, j) ==
    LET pi == parts_of(file[i])
        pj == parts_of(file[j])
    IN  /\ lower(pj[4]) = lower(pi[4])
        /\ \/ lower(pj[3]) = lower(pi[3])
           \/ (RecordAt(j).species # None /\ lower(RecordAt(j).species) = lower(pi[3]))
           \/ lower(pj[3]) = lower(pi[4]) \o <<" ">> \o lower(pi[3])

\* C9: for a valid line with id T, genus G, a bare marker-free epithet s as species
\* field and family F, not followed by a line of the same genus and species, the
\* query {genus G, species s, family F} resolves to T at rank species.
C9_SpeciesLineResolves ==
    Resolved =>
        \A i \in ValidLines :
            LET parts == parts_of(file[i]) IN
            ( /\ parts[4] # <<>>
              /\ parts[3] # <<>> /\ NoWhitespace(parts[3]) /\ NoMarker(parts[3])
              /\ parts[5] # <<>>
              /\ \A j \in ValidLines : j > i => ~SameGenusAndSpecies(i, j)
              /\ query.genus = parts[4]
              /\ query.species = parts[3]
              /\ query.family = parts[5]
              /\ \A r \in {"order", "class", "phylum"} : query[r] = <<>> )
            => /\ result.taxid = parts[1]
               /\ result.matched_rank = "species"
               /\ result.is_mismatch = FALSE

-----------------------------------------------------------------------------
(* C10: last occurrence wins *)


\* the valid lines whose record is stored in by_species, and the key of each
SpeciesLines == {i \in ValidLines : Truthy(RecordAt(i).species) /\ Truthy(RecordAt(i).genus)}
SpeciesKeyAt(i) == species_key_of(RecordAt(i).genus, RecordAt(i).species)

\* C10: when load_rankedlineage returns, by_scientific_name holds under the lowercased name of
\* every valid line the record of the last valid line with that lowercased name,
\* and by_species holds under every composite key the record of the last line
\* with that key.
C10_LastWins ==
    pc = "ready" =>
        /\ \A i \in ValidLines :
            LET name == lower(RecordAt(i).scientific_name)
                last == Greatest({j \in ValidLines : lower(RecordAt(j).scientific_name) = name})
            IN  /\ name \in DOMAIN tax_data.by_scientific_name
                /\ tax_data.by_scientific_name[name].taxid = RecordAt(last).taxid
                /\ tax_data.by_scientific_name[name] = RecordAt(last)
        /\ \A i \in SpeciesLines :
            LET last == Greatest({j \in SpeciesLines : SpeciesKeyAt(j) = SpeciesKeyAt(i)})
            IN  /\ SpeciesKeyAt(i) \in DOMAIN tax_data.by_species
                /\ tax_data.by_species[SpeciesKeyAt(i)].taxid = RecordAt(last).taxid
                /\ tax_data.by_species[SpeciesKeyAt(i)] = RecordAt(last)

\* two valid lines with different ids under one lowercased scientific name and one
\* composite species key, the index holding the later line's id under both
C10_Witness ==
    /\ pc = "ready"
    /\ \E i, j \in SpeciesLines :
        /\ i < j
        /\ RecordAt(i).taxid # RecordAt(j).taxid
        /\ RecordAt(i).scientific_name # RecordAt(j).scientific_name
        /\ lower(RecordAt(i).scientific_name) = lower(RecordAt(j).scientific_name)
        /\ SpeciesKeyAt(i) = SpeciesKeyAt(j)
        /\ tax_data.by_scientific_name[lower(RecordAt(i).scientific_name)].taxid
               = RecordAt(j).taxid
        /\ tax_data.by_species[SpeciesKeyAt(i)].taxid = RecordAt(j).taxid

-----------------------------------------------------------------------------
(* C11: ambiguous species are left out of by_species *)

HasMarker(s) == \E m \in 1..Len(SpeciesMarkers) : contains(lower(s), SpeciesMarkers[m])

\* line i's id is the id of some record of by_species
InBySpecies(i) ==
    \E k \in DOMAIN tax_data.by_species :
        tax_data.by_species[k].taxid = parts_of(file[i])[1]

\* the species epithet of line i: the species field after the genus name when it
\* starts with it, the species field otherwise, the scientific name after the
\* genus name when the species field is empty
Epithet(i) ==
    LET parts == parts_of(file[i])
        name == parts[2]
        field == parts[3]
        genus == parts[4]
    IN  IF field # <<>>
        THEN IF genus # <<>> /\ startswith(lower(field), lower(genus))
             THEN strip(from(field, Len(genus)))
             ELSE field
        ELSE IF genus # <<>> /\ startswith(name, genus)
             THEN strip(from(name, Len(genus)))
             ELSE <<>>

\* C11 as claimed: when load_rankedlineage returns, no record of by_species comes
\* from a line whose species field, as written in the line before the genus name
\* is stripped, contains one of the markers.
C11_RawFieldNeverIndexed ==
    pc = "ready" =>
        \A i \in ValidLines : HasMarker(parts_of(file[i])[3]) => ~InBySpecies(i)

\* C11: when load_rankedlineage returns, no record of by_species comes from a line
\* whose species epithet, taken after the genus name is stripped, contains one of
\* the markers 'sp.', 'cf.', 'aff.', 'x ', 'subsp.', 'var.'.
C11_EpithetNeverIndexed ==
    pc = "ready" =>
        \A i \in ValidLines : HasMarker(Epithet(i)) => ~InBySpecies(i)

\* the index built from a line with 'sp.' in its epithet, left out, and from a line
\* with "x " in the species field as written but not in the epithet, stored
C11_Witness ==
    /\ pc = "ready"
    /\ \E i, j \in ValidLines :
        /\ HasMarker(Epithet(i))
        /\ ~InBySpecies(i)
        /\ HasMarker(parts_of(file[j])[3])
        /\ ~HasMarker(Epithet(j))
        /\ InBySpecies(j)

-----------------------------------------------------------------------------
(* C12: the rank indices *)

IndexedRanks == {"genus", "family", "order", "class", "phylum"}

\* the field of a line that holds a rank's value
FieldOf(rank) ==
    CASE rank = "genus"  -> 4
      [] rank = "family" -> 5
      [] rank = "order"  -> 6
      [] rank = "class"  -> 7
      [] rank = "phylum" -> 8

RankIndex(td, rank) ==
    CASE rank = "genus"  -> td.by_genus
      [] rank = "family" -> td.by_family
      [] rank = "order"  -> td.by_order
      [] rank = "class"  -> td.by_class
      [] rank = "phylum" -> td.by_phylum

\* the members of a set of positions, smallest first
RECURSIVE Ascending(_)
Ascending(S) ==
    IF S = {} THEN <<>> ELSE <<Least(S)>> \o Ascending(S \ {Least(S)})

\* every rank index holds, under each lowercased value, the records of the valid
\* lines that carry the value, in file order, and nothing else
RankIndexExact ==
    LET parts == [i \in 1..Len(file) |-> parts_of(file[i])]
        valid == {i \in 1..Len(file) : Len(parts[i]) >= MinFields}
        record == [i \in valid |-> lineage_of(parts[i])]
    IN  \A rank \in IndexedRanks :
            LET d == RankIndex(tax_data, rank)
                carrying == {i \in valid : parts[i][FieldOf(rank)] # <<>>}
            IN  /\ DOMAIN d = {lower(parts[i][FieldOf(rank)]) : i \in carrying}
                /\ \A key \in DOMAIN d :
                    LET lines ==
                            Ascending({i \in carrying : lower(parts[i][FieldOf(rank)]) = key})
                    IN  d[key] = [n \in 1..Len(lines) |-> record[lines[n]]]

RankIndexAppendOnly ==
    \A rank \in IndexedRanks :
        LET d == RankIndex(tax_data, rank)
            e == RankIndex(tax_data', rank)
        IN  \A key \in DOMAIN d :
                /\ key \in DOMAIN e
                /\ Len(e[key]) >= Len(d[key])
                /\ SubSeq(e[key], 1, Len(d[key])) = d[key]

\* C12: while load_rankedlineage runs and after it, each of by_genus, by_family,
\* by_order, by_class and by_phylum maps a lowercased value to the list of the
\* records of exactly the valid lines that carry that non-empty value at the
\* rank, each line once, in file order; a line with an empty value at a rank is
\* in no list of that rank; a step only appends to the lists.
C12_RankIndices == [](RankIndexExact) /\ [][RankIndexAppendOnly]_vars

\* a family list of three records of three different lines, in file order, and a
\* valid line without genus, absent from by_genus
C12_Witness ==
    /\ \E key \in DOMAIN tax_data.by_family :
        /\ Len(tax_data.by_family[key]) = 3
        /\ \A n \in 1..3 : tax_data.by_family[key][n].taxid = parts_of(file[n])[1]
        /\ Cardinality({parts_of(file[n])[1] : n \in 1..3}) = 3
    /\ \E i \in ValidLines :
        /\ parts_of(file[i])[4] = <<>>
        /\ \A key \in DOMAIN tax_data.by_genus :
            \A n \in 1..Len(tax_data.by_genus[key]) :
                tax_data.by_genus[key][n].taxid # parts_of(file[i])[1]

-----------------------------------------------------------------------------
(* C13: short lines and surplus fields *)

\* a valid line cut down to its first ten fields
FirstTen(line) == PlainLine(SubSeq(parts_of(line), 1, MinFields))

\* the file without its short lines, every other line cut down to ten fields
KeptLines ==
    LET kept == SelectSeq(file, IsValidLine)
    IN  [n \in 1..Len(kept) |-> FirstTen(kept[n])]

\* C13: a line with fewer than 10 fields changes none of the seven indices and
\* the lines after it are indexed as if it were not there; of a line with more
\* than 10 fields only the first ten reach the indices: at every moment the
\* indices are those built from the valid lines read so far, each cut down to its
\* first ten fields.
C13_ShortAndSurplus == tax_data = Built(KeptLines, Len(KeptLines))

\* a short line followed by a valid line with non-empty fields after the tenth,
\* the later line indexed under its name and the short one not
C13_Witness ==
    \E i, j \in 1..Len(file) :
        /\ i < j
        /\ ~IsValidLine(file[i])
        /\ Len(parts_of(file[i])) >= 2
        /\ IsValidLine(file[j])
        /\ Len(parts_of(file[j])) > MinFields
        /\ parts_of(file[j])[MinFields + 1] # <<>>
        /\ lower(parts_of(file[j])[2]) \in DOMAIN tax_data.by_scientific_name
        /\ \A key \in DOMAIN tax_data.by_scientific_name :
            tax_data.by_scientific_name[key].taxid # parts_of(file[i])[1]

-----------------------------------------------------------------------------
(* C14: the indices are frozen once built *)

\* C14: once load_rankedlineage has returned, no step of the batch (a worker
\* starting, returning from or raising in process_row, the loop collecting a
\* result or an error, the output being written), in any interleaving, changes
\* any of the indices.
C14_IndexFrozen == [][pc # "load" => tax_data' = tax_data]_vars

\* two workers have returned, one of them with a record of the index, the results
\* are written, and the indices are still those built from the file
C14_Witness ==
    /\ pc = "done"
    /\ Len(results) = 2
    /\ \A i \in 1..2 : ~futures[i].raised
    /\ \E k \in 1..2 : results[k].matched_rank \in {"species", "genus", "family"}
    /\ tax_data.by_genus # EmptyDict
    /\ tax_data = Built(file, Len(file))

-----------------------------------------------------------------------------
(* C15: the same query gives the same result *)

\* the futures whose process_row has returned
Returned == {i \in 1..Len(futures) : futures[i].state = "finished" /\ ~futures[i].raised}

\* the four cells process_row adds: resolve_taxid's tuple as it is written
OutcomeCells == {"taxid", "matched_rank", "lineage", "lineage_mismatch"}
Outcome(row_result) == [c \in OutcomeCells |-> row_result[c]]

\* C15: whatever calls ran before, between or beside them, two calls that were
\* handed the same six strings against the same indices have returned the same
\* taxid, matched rank, lineage string and mismatch flag, the ones a single call
\* against the freshly built indices returns.  Each call runs in two steps of its
\* thread, on its own local variables, and other threads step in between.
C15_SameQuerySameResult ==
    LET fresh == Built(file, Len(file)) IN
    \A i \in Returned :
        /\ Outcome(futures[i].result) = Outcome(process_row(rows[i], fresh))
        /\ \A j \in Returned :
               fetcher_query(rows[i]) = fetcher_query(rows[j]) =>
                   Outcome(futures[i].result) = Outcome(futures[j].result)

\* the same row submitted first and last with another row between them: the call
\* for the other row has read its strings and is still running, the two calls for
\* the same row began before and after it and have returned the same
\* species-rank result
C15_Witness ==
    /\ Len(rows) = 3
    /\ rows[1] = rows[3]
    /\ fetcher_query(rows[2]) # fetcher_query(rows[1])
    /\ Returned = {1, 3}
    /\ futures[2].state = "running"
    /\ futures[2].locals = locals_of(rows[2])
    /\ futures[1].result = futures[3].result
    /\ futures[1].result["matched_rank"] = "species"

-----------------------------------------------------------------------------
(* C16, C17, C18: the rows collected from the pool *)

\* the row the batch owes to the i-th input row: the row with the outcome of its
\* own future, the error marks when that future raised
Owed(i) ==
    IF futures[i].raised
    THEN with_outcome(rows[i], w_error, "error", <<>>, "")
    ELSE process_row(rows[i], tax_data)

\* the input columns of a collected row
InputOf(r) == [c \in columns |-> r[c]]

\* C16 as claimed: whatever the order in which the workers ran and finished,
\* the rows written are, up to their order, the rows owed to the input rows, one
\* for each.
C16_SameResultsPerQuery ==
    pc = "done" =>
        \E p \in Permutations(1..Len(rows)) :
            \A k \in 1..Len(rows) : results[k] = Owed(p[k])

\* C17 as claimed: the row collected for a future is the row that future was
\* submitted for, with that future's outcome, whatever the position of the row
\* and the order of completion.
C17_BackReference ==
    \A k \in 1..Len(results) : results[k] = Owed(yielded[k])

\* C18 as claimed: the row collected for a future that raised is the row of that
\* future marked 'error', and when the batch is done every input row is in the
\* results as often as in the input.
C18_ErrorRowForFailingQuery ==
    /\ \A k \in 1..Len(results) :
        futures[yielded[k]].raised =>
            /\ results[k].taxid = w_error
            /\ results[k].matched_rank = "error"
            /\ InputOf(results[k]) = rows[yielded[k]]
    /\ pc = "done" =>
        \A i \in 1..Len(rows) :
            Cardinality({k \in 1..Len(results) : InputOf(results[k]) = rows[i]})
                = Cardinality({j \in 1..Len(rows) : rows[j] = rows[i]})

-----------------------------------------------------------------------------
(* C19: the batch ends with as many rows as it was given *)

total_rows == Len(rows)

ErrorRows == {k \in 1..Len(results) : results[k].matched_rank = "error"}

BatchDone ==
    /\ pc = "done"
    /\ Len(results) = total_rows
    /\ output.written
    /\ Len(output.rows) = total_rows
    /\ processed_rows = total_rows
    /\ successful_rows + Cardinality(ErrorRows) = total_rows

\* C19: every run of the batch comes to its end, and there the results and the
\* written output hold as many rows as the input, processed_rows equals
\* total_rows, and successful_rows plus the number of error rows equals total_rows.
C19_OneRowPerInput == <>[]BatchDone

\* a batch of three rows ended with two resolved rows and one error row
C19_Witness ==
    /\ BatchDone
    /\ total_rows = 3
    /\ successful_rows = 2
    /\ Cardinality(ErrorRows) = 1

-----------------------------------------------------------------------------
(* C20: a missing taxonomy column *)

missing_columns == required_columns \ columns

\* the row with a missing cell in every column the CSV lacks
Filled(row) == [c \in RowRanks |-> IF c \in DOMAIN row THEN row[c] ELSE NaN]

\* C20 as claimed: when the input lacks a required column the batch stops at its
\* start: no task runs, no row is collected and no output is written.
C20_FailFast ==
    (pc \in {"check", "submit", "collect", "done"} /\ missing_columns # {}) =>
        /\ pc # "done"
        /\ ~output.written
        /\ results = <<>>
        /\ \A i \in 1..Len(futures) : futures[i].state = "pending"

\* the batch has run to its end although a column is missing: the output holds a
\* row for every input row, and every task that returned gave what it gives for
\* the row with an empty cell in the missing column
DoneDespiteMissing ==
    /\ pc = "done"
    /\ missing_columns # {}
    /\ output.written
    /\ Len(output.rows) = Len(rows)
    /\ \A i \in Returned :
        \A c \in OutColumns :
            futures[i].result[c] = process_row(Filled(rows[i]), tax_data)[c]

\* C20: when the input CSV lacks a required column, the batch does not stop:
\* it goes on to resolve every row with the missing rank read as not provided
\* and writes one output row per input row.
C20_MissingColumnTolerated ==
    (pc = "check" /\ missing_columns # {}) ~> DoneDespiteMissing

\* a batch without the phylum column, ended and written, with a row resolved at
\* a rank
C20_Witness ==
    /\ DoneDespiteMissing
    /\ \E k \in 1..Len(output.rows) :
        output.rows[k].matched_rank \in {"species", "genus", "family"}

-----------------------------------------------------------------------------
(* The rows written from a result of resolve_taxid *)

\* C21: whatever the indices and the query, the result of resolve_taxid carries
\* is_mismatch = False, and the row written from it carries lineage_mismatch "No",
\* never "Yes"
C21_NeverMismatch ==
    Resolved => (result.is_mismatch = FALSE /\ out["lineage_mismatch"] = "No")

\* a row of taxid_fetcher has matched a record at genus and is written with "No"
C21_Witness ==
    /\ Resolved
    /\ tool = "fetcher"
    /\ result.matched_rank = "genus"
    /\ result.is_mismatch = FALSE
    /\ out["lineage_mismatch"] = "No"

\* the steps of resolve_taxid that accept a candidate, as positions of Precedence
AcceptingSteps == {i \in 1..Len(Precedence) : Accepts(Precedence[i])}

\* what the step of a rank asks of a candidate
CandidateAccepted(rank, record) ==
    IF rank \in {"species", "genus"}
    THEN AgreesSomewhere(record, query)
    ELSE Agrees(record, query, rank)

\* the first candidate the step of a rank accepts
AcceptedRecord(rank) ==
    LET candidates == StepCandidates(rank)
        ok == {c \in 1..Len(candidates) : CandidateAccepted(rank, candidates[c])}
    IN  candidates[Least(ok)]

\* the word either script writes into the taxid cell when nothing matched
Sentinel == IF tool = "fetcher" THEN w_not_found ELSE w_not_collected

\* C23: in the written row the taxid cell holds the script's sentinel ('not found'
\* for taxid_fetcher, 'not collected' for taxonomy_resolver) exactly when
\* matched_rank is 'unmatched'; when matched_rank is a rank, the cell holds the
\* taxid of the record the step of that rank accepted
C23_SentinelIffUnmatched ==
    Resolved =>
        LET steps == AcceptingSteps IN
        /\ out["taxid"] = Sentinel <=> out["matched_rank"] = "unmatched"
        /\ out["matched_rank"] = "unmatched" <=> steps = {}
        /\ steps # {} =>
               LET rank == Precedence[Least(steps)] IN
               /\ out["matched_rank"] = rank
               /\ out["taxid"] = AcceptedRecord(rank).taxid

\* the written row of taxid_fetcher has a rank as matched_rank and the record the
\* step of that rank accepted has the empty taxid
AcceptedWithoutTaxid ==
    /\ Resolved
    /\ tool = "fetcher"
    /\ AcceptingSteps # {}
    /\ AcceptedRecord(Precedence[Least(AcceptingSteps)]).taxid = <<>>

\* what is left of C23 beside that case: in the rows of taxonomy_resolver, and in
\* the rows of taxid_fetcher whose accepted record has a non-empty taxid, the
\* sentinel stands exactly beside 'unmatched' and the cell holds the taxid of the
\* accepted record; in the other rows of taxid_fetcher a rank stands beside
\* 'not found'
C23_UnlessTaxidEmpty ==
    Resolved =>
        IF AcceptedWithoutTaxid
        THEN /\ out["taxid"] = w_not_found
             /\ out["matched_rank"] = Precedence[Least(AcceptingSteps)]
        ELSE LET steps == AcceptingSteps IN
             /\ out["taxid"] = Sentinel <=> out["matched_rank"] = "unmatched"
             /\ out["matched_rank"] = "unmatched" <=> steps = {}
             /\ steps # {} =>
                    LET rank == Precedence[Least(steps)] IN
                    /\ out["matched_rank"] = rank
                    /\ out["taxid"] = AcceptedRecord(rank).taxid

\* a row of taxonomy_resolver written with 'not collected' although its genus is
\* a key of by_genus: no candidate of the genus was accepted, nor any other
C23_Witness ==
    /\ Resolved
    /\ tool = "resolver"
    /\ GenusHit
    /\ out["matched_rank"] = "unmatched"
    /\ out["taxid"] = w_not_collected

-----------------------------------------------------------------------------
(* The species of a record *)

\* the species derived from the fields of a line: the species field after the
\* genus when it starts with it up to case, the species field otherwise, the
\* scientific name after the genus when the species field is empty; absent
\* (empty) when it holds one of the markers
DerivedFrom(parts) ==
    LET name == parts[2]
        field == parts[3]
        genus == parts[4]
        value ==
            IF field # <<>>
            THEN IF genus # <<>> /\ startswith(lower(field), lower(genus))
                 THEN strip(from(field, Len(genus)))
                 ELSE field
            ELSE IF genus # <<>> /\ startswith(name, genus)
                 THEN strip(from(name, Len(genus)))
                 ELSE <<>>
    IN  IF HasMarker(value) THEN <<>> ELSE value

Derived(i) == DerivedFrom(parts_of(file[i]))

DerivedKey(i) == lower(parts_of(file[i])[4]) \o <<" ">> \o lower(Derived(i))

\* C24: after every line, the record of each valid line carries as species the
\* species field with the genus stripped from its start when it begins with the
\* genus up to case, the species field as it is otherwise, the scientific name
\* after the genus when the species field is empty; a value holding 'sp.', 'cf.',
\* 'aff.', 'subsp.', 'var.' or 'x ' is absent; and by_species holds a record
\* for a line exactly when the derived species and the genus are both non-empty
C24_SpeciesDerivation ==
    LET parts == [i \in 1..Len(file) |-> parts_of(file[i])]
        valid == {i \in 1..Len(file) : Len(parts[i]) >= MinFields}
        derived == [i \in valid |-> DerivedFrom(parts[i])]
        name == [i \in valid |-> lower(parts[i][2])]
        species_lines == {i \in valid : derived[i] # <<>> /\ parts[i][4] # <<>>}
        key == [i \in species_lines |-> lower(parts[i][4]) \o <<" ">> \o lower(derived[i])]
    IN  /\ \A i \in valid :
            (\A j \in valid : name[j] = name[i] => j <= i) =>
                LET stored == tax_data.by_scientific_name[name[i]] IN
                IF derived[i] # <<>>
                THEN stored.species = derived[i]
                ELSE ~Truthy(stored.species)
        /\ DOMAIN tax_data.by_species = {key[i] : i \in species_lines}
        /\ \A k \in DOMAIN tax_data.by_species :
            \E i \in species_lines :
                key[i] = k /\ tax_data.by_species[k].taxid = parts[i][1]
        /\ species_indexed = Cardinality(species_lines)

\* the index built from three lines: one with the genus in capitals ahead of the
\* epithet in the species field, stored under the bare epithet; one with an empty
\* species field, stored under the rest of its scientific name; one with 'sp.',
\* left out of by_species
C24_Witness ==
    /\ Len(file) = 3
    /\ \E i, j, k \in ValidLines :
        /\ parts_of(file[i])[3] = w_GO_gorilla
        /\ Derived(i) = w_gorilla
        /\ DerivedKey(i) \in DOMAIN tax_data.by_species
        /\ parts_of(file[j])[3] = <<>>
        /\ Derived(j) # <<>>
        /\ DerivedKey(j) \in DOMAIN tax_data.by_species
        /\ HasMarker(Epithet(k))
        /\ ~InBySpecies(k)
    /\ species_indexed = 2

-----------------------------------------------------------------------------
(* The species of a query *)

\* resolve_taxid of the script that resolved the row
ResolveAs(t, q, td) ==
    IF t = "fetcher" THEN fetcher_resolve_query(q, td) ELSE resolve_query(q, td)

\* the query with its species written after its genus: 'G s' for genus G, epithet s
Prefixed(q) == [q EXCEPT !.species = q.genus \o <<" ">> \o q.species]

\* the query gives a genus and a bare epithet
BareEpithet(q) ==
    /\ Provided(q.genus) /\ NoWhitespace(q.genus)
    /\ Provided(q.species) /\ NoWhitespace(q.species)

\* C25: for a query with genus G and bare epithet s, against every index,
\* resolve_taxid returns the same result when the species is written 'G s', and
\* both spellings look up the by_species key lowercase(G) + ' ' + lowercase(s)
C25_PrefixedSameAsBare ==
    (Resolved /\ BareEpithet(query)) =>
        LET key == lower(query.genus) \o <<" ">> \o lower(query.species) IN
        /\ ResolveAs(tool, Prefixed(query), tax_data) = result
        /\ query_species_key(query.genus, Prefixed(query).species) = key
        /\ query_species_key(query.genus, query.species) = key

\* the same, for the epithets that do not begin with the genus
C25_UnlessEpithetBeginsWithGenus ==
    (Resolved /\ BareEpithet(query)
        /\ ~startswith(lower(query.species), lower(query.genus))) =>
        LET key == lower(query.genus) \o <<" ">> \o lower(query.species) IN
        /\ ResolveAs(tool, Prefixed(query), tax_data) = result
        /\ query_species_key(query.genus, Prefixed(query).species) = key
        /\ query_species_key(query.genus, query.species) = key

-----------------------------------------------------------------------------
(* A query without higher ranks *)

\* C26: a query that provides none of family, order, class and phylum (each the
\* empty string or 'not collected') resolves to 'unmatched' with no taxid,
\* whatever its genus and species and whatever the indices hold
C26_NoHigherRankNoMatch ==
    (Resolved /\ \A r \in HigherRanks : NotProvided(query[r])) =>
        /\ result.matched_rank = "unmatched"
        /\ result.taxid = None

\* the same, for the queries whose four higher ranks are the empty string
C26_EmptyHigherRanks ==
    (Resolved /\ \A r \in HigherRanks : query[r] = <<>>) =>
        /\ result.matched_rank = "unmatched"
        /\ result.taxid = None

\* a query with empty higher ranks left unmatched although its genus and species
\* are keys of by_genus and by_species
C26_EmptyHigherRanksWitness ==
    /\ Resolved
    /\ \A r \in HigherRanks : query[r] = <<>>
    /\ SpeciesHit
    /\ GenusHit
    /\ result = Unmatched

-----------------------------------------------------------------------------
(* What the species and genus attempts accept *)

\* the candidates of the query's genus that agree with the query at one or more
\* of family, order, class, phylum, as positions of the genus list
AgreeingGenusCandidates ==
    {c \in 1..Len(GenusCandidates) : AgreesSomewhere(GenusCandidates[c], query)}

\* C27: the species attempt accepts its candidate, and the genus attempt a
\* candidate, exactly when the candidate agrees with the query, up to case and
\* with a value on both sides, at one or more of family, order, class, phylum;
\* the genus attempt returns the earliest such candidate of the genus list in
\* file order, whichever of the four ranks it agrees at
C27_AcceptsOnAnyRank ==
    Resolved =>
        /\ result.matched_rank = "species" <=>
               (SpeciesHit /\ AgreesSomewhere(tax_data.by_species[QuerySpeciesKey], query))
        /\ result.matched_rank = "species" =>
               result = create_return_tuple(tax_data.by_species[QuerySpeciesKey],
                                            "species", FALSE)
        /\ result.matched_rank # "species" =>
               /\ result.matched_rank = "genus" <=>
                      (GenusHit /\ AgreeingGenusCandidates # {})
               /\ result.matched_rank = "genus" =>
                      result = create_return_tuple(
                                   GenusCandidates[Least(AgreeingGenusCandidates)],
                                   "genus", FALSE)

\* a genus-rank result for the first candidate of the list, which agrees with the
\* query at phylum alone, ahead of a later candidate that agrees at family
C27_Witness ==
    /\ Resolved
    /\ result.matched_rank = "genus"
    /\ Len(GenusCandidates) >= 2
    /\ result.taxid = GenusCandidates[1].taxid
    /\ Agrees(GenusCandidates[1], query, "phylum")
    /\ \A r \in {"family", "order", "class"} : ~Agrees(GenusCandidates[1], query, r)
    /\ Agrees(GenusCandidates[2], query, "family")
    /\ GenusCandidates[2].taxid # GenusCandidates[1].taxid

-----------------------------------------------------------------------------
(* What the rank-by-rank attempt returns *)

\* the steps ahead of position i of Precedence accept nothing
NothingAcceptedBefore(i) == \A j \in 1..(i - 1) : ~Accepts(Precedence[j])

\* C28: in the rank-by-rank attempt validation rejects no candidate: whenever the
\* query's value at a rank R of family, order, class, phylum is a key of that
\* rank's index and no earlier step has accepted, the result is the first record,
\* in file order, of that key's list, with matched_rank R; no later record of
\* the list is returned by the step
C28_FirstOfRankList ==
    Resolved =>
        \A i \in 3..Len(Precedence) :
            LET rank == Precedence[i] IN
            (RankHit(rank) /\ NothingAcceptedBefore(i)) =>
                /\ result = create_return_tuple(RankCandidates(rank)[1], rank, FALSE)
                /\ \A c \in 2..Len(RankCandidates(rank)) :
                       RankCandidates(rank)[c].taxid # RankCandidates(rank)[1].taxid
                           => result.taxid # RankCandidates(rank)[c].taxid

\* a family-rank result for the first record of a list of two: the first record
\* disagrees with the query at class, the second agrees with it
C28_Witness ==
    /\ Resolved
    /\ RankHit("family")
    /\ NothingAcceptedBefore(3)
    /\ Len(RankCandidates("family")) = 2
    /\ result.matched_rank = "family"
    /\ result.taxid = RankCandidates("family")[1].taxid
    /\ Provided(query.class)
    /\ ~Agrees(RankCandidates("family")[1], query, "class")
    /\ Agrees(RankCandidates("family")[2], query, "class")
    /\ RankCandidates("family")[2].taxid # RankCandidates("family")[1].taxid

-----------------------------------------------------------------------------
(* The two copies of the engine *)

\* the script whose copy of the engine did not resolve the row
OtherTool == IF tool = "fetcher" THEN "resolver" ELSE "fetcher"

\* C29: the two copies of the engine are equivalent: from every reference file
\* taxid_fetcher.load_rankedlineage builds the indices
\* taxonomy_resolver.load_rankedlineage builds, and for every query of six strings,
\* empty ones included, against them the resolve_taxid of either script returns
\* the (taxid, matched_rank, lineage, is_mismatch) the other one returns
C29_CopiesAgree ==
    /\ pc = "ready" =>
           /\ tax_data = fetcher_Built(file, Len(file))
           /\ tax_data = Built(file, Len(file))
    /\ Resolved =>
           /\ result = ResolveAs(tool, query, tax_data)
           /\ result = ResolveAs(OtherTool, query, tax_data)

\* a row of taxid_fetcher with no family, matched at genus by a candidate that
\* agrees with it at a rank above family: both copies pass over the empty family
C29_Witness ==
    /\ Resolved
    /\ tool = "fetcher"
    /\ query.family = <<>>
    /\ result.matched_rank = "genus"
    /\ result = resolve_query(query, tax_data)
    /\ tax_data.by_species # EmptyDict
    /\ tax_data = fetcher_Built(file, Len(file))

-----------------------------------------------------------------------------
(* Consistency of the indices *)

\* the records of a list
Members(list) == {list[c] : c \in 1..Len(list)}

\* the records reachable from by_scientific_name and by_species
SingleRecords ==
    {tax_data.by_scientific_name[k] : k \in DOMAIN tax_data.by_scientific_name}
        \cup {tax_data.by_species[k] : k \in DOMAIN tax_data.by_species}

\* the records reachable from the lists of the five rank indices
ListedRecords ==
    UNION {UNION {Members(RankIndex(tax_data, rank)[k]) : k \in DOMAIN RankIndex(tax_data, rank)} :
              rank \in IndexedRanks}

\* the dicts built so far that belong under key k of an index, as positions in
\* the order of building
DictsUnder(name, k) ==
    {o \in 1..Len(objects.heap) :
        LET record == objects.heap[o] IN
        CASE name = "by_scientific_name" -> lower(record.scientific_name) = k
          [] name = "by_species" ->
                 /\ Truthy(record.species)
                 /\ Truthy(record.genus)
                 /\ species_key_of(record.genus, record.species) = k
          [] OTHER ->
                 \E rank \in IndexedRanks :
                     /\ index_name[rank] = name
                     /\ Truthy(record[rank])
                     /\ lower(record[rank]) = k}

\* the indices hold references to the one dict of each line: the n-th dict built
\* is the dict of the n-th valid line of the file and no other dict is built; an
\* entry of by_scientific_name or by_species refers to the dict of the last line
\* with its key; a list of a rank index refers to the dicts of the lines with its
\* key, one reference for each, in file order; every key a dict belongs under is
\* a key of its index
SharedRecords ==
    LET valid == SelectSeq(file, IsValidLine) IN
    /\ Len(objects.heap) = Len(valid)
    /\ \A n \in 1..Len(valid) : objects.heap[n] = lineage_of(parts_of(valid[n]))
    /\ \A name \in {"by_scientific_name", "by_species"} :
        \A k \in DOMAIN objects.refs[name] :
            /\ DictsUnder(name, k) # {}
            /\ objects.refs[name][k] = Greatest(DictsUnder(name, k))
    /\ \A rank \in IndexedRanks :
        LET index == objects.refs[index_name[rank]] IN
        \A k \in DOMAIN index :
            /\ Members(index[k]) = DictsUnder(index_name[rank], k)
            /\ \A c, d \in 1..Len(index[k]) : c < d => index[k][c] < index[k][d]
    /\ \A o \in 1..Len(objects.heap) :
        LET record == objects.heap[o] IN
        /\ lower(record.scientific_name) \in DOMAIN objects.refs.by_scientific_name
        /\ Truthy(record.species) /\ Truthy(record.genus) =>
               species_key_of(record.genus, record.species) \in DOMAIN objects.refs.by_species
        /\ \A rank \in IndexedRanks :
               Truthy(record[rank]) =>
                   lower(record[rank]) \in DOMAIN objects.refs[index_name[rank]]

\* C30: after every line, every record listed under a key k of by_genus,
\* by_family, by_order, by_class or by_phylum has k as the lowercase of its value
\* at that rank; every record under a key k of by_species has a non-empty genus
\* and species, k = lowercase(genus) + ' ' + lowercase(species), and is a member
\* of by_genus[lowercase(genus)]; and the records reached from different indices
\* for one line are one and the same dict object: tax_data holds, under every
\* key, the dict its reference names, and the references made for a line all
\* name the one dict built for that line
C30_IndexConsistency ==
    /\ \A rank \in IndexedRanks :
        \A k \in DOMAIN RankIndex(tax_data, rank) :
            \A record \in Members(RankIndex(tax_data, rank)[k]) :
                /\ record[rank] # <<>>
                /\ lower(record[rank]) = k
    /\ \A k \in DOMAIN tax_data.by_species :
        LET record == tax_data.by_species[k] IN
        /\ Truthy(record.genus)
        /\ Truthy(record.species)
        /\ k = lower(record.genus) \o <<" ">> \o lower(record.species)
        /\ lower(record.genus) \in DOMAIN tax_data.by_genus
        /\ record \in Members(tax_data.by_genus[lower(record.genus)])
    /\ tax_data = dereferenced(objects)
    /\ SharedRecords
    /\ \A k \in DOMAIN objects.refs.by_species :
        LET o == objects.refs.by_species[k] IN
        o \in Members(objects.refs.by_genus[lower(objects.heap[o].genus)])

\* three lines read, the first and the third with the same fields: the dict of
\* the third is referred to by by_species, by by_scientific_name, by a genus list
\* of three and by a family list, the dict of the first is another one, with the
\* same fields, in the same genus list
C30_Witness ==
    /\ Len(file) = 3
    /\ file[1] = file[3]
    /\ Len(objects.heap) = 3
    /\ objects.heap[1] = objects.heap[3]
    /\ \E k \in DOMAIN objects.refs.by_species :
        LET o == objects.refs.by_species[k]
            record == objects.heap[o]
        IN  /\ o = 3
            /\ tax_data.by_species[k] = record
            /\ objects.refs.by_scientific_name[lower(record.scientific_name)] = o
            /\ objects.refs.by_genus[lower(record.genus)] = <<1, 2, 3>>
            /\ o \in Members(objects.refs.by_family[lower(record.family)])
            /\ record.species # record.scientific_name

-----------------------------------------------------------------------------
(* The result list of the batch *)

\* the step is one of a worker thread: a Future changes
WorkerStep == futures' # futures

\* the step appends exactly one row to results
AppendsOne ==
    /\ Len(results') = Len(results) + 1
    /\ SubSeq(results', 1, Len(results)) = results

\* C22: the writes to results and to the two counters are serialized: a step of
\* a worker thread running process_row leaves results, processed_rows and
\* successful_rows alone; every change of them is one iteration of the collecting
\* loop, which appends exactly one row behind the rows already there and counts
\* it, so that no append overlaps another and none is lost
C22_SinkSerialized ==
    [][/\ WorkerStep => UNCHANGED <<results, processed_rows, successful_rows>>
       /\ (yielded' # yielded) <=> (results' # results)
       /\ (results' # results) => (AppendsOne /\ processed_rows' = processed_rows + 1)
       /\ Len(results') = Len(yielded')
       /\ processed_rows' = Len(results')
       /\ successful_rows' <= processed_rows']_vars

\* two tasks have finished while a third is still running, and the loop has
\* collected one of the two
C22_Witness ==
    /\ pc = "collect"
    /\ Running # {}
    /\ Len(results) = 1
    /\ processed_rows = 1
    /\ \E i \in 1..Len(futures) : Completed(i)

====
